---- MODULE Spec2Model ----
(***************************************************************************)
(* Model of js-unicode-bar-chart (src/index.ts, first and most complete    *)
(* variant, lines 1-1105): unicodeBarChart and the text helpers it calls.  *)
(*                                                                         *)
(* Representation.  A JavaScript string is a sequence of tokens; a token   *)
(* is a one-character string, the name of a block glyph ("V1".."V7",       *)
(* "H1".."H7", "FULL"), or one whole ANSI escape ("ESC[41m").  An array of *)
(* strings (buf, line) is a sequence of such sequences where the code pops *)
(* from it, and the flat concatenation where it only joins it.  Numbers    *)
(* are integers; y / ySize is kept exact (see Quantize).                   *)
(***************************************************************************)
EXTENDS Integers, Sequences, FiniteSets, TLC

\* ------------------------------------------------------------------ bounds
MaxWidth == 5
MaxHeight == 5
MaxSeries == 2
ExplicitBarWidth == 2
MaxColouredSeries == 3
MaxTextLen == 5
MaxWrapWidth == 4
MaxMargin == 1
MaxItems == 2
MaxFrames == 4
MaxShutdowns == 3
MaxChunk == 2

\* ------------------------------------------------------- small arithmetic
Max(a, b) == IF a > b THEN a ELSE b
Min(a, b) == IF a < b THEN a ELSE b

\* a / b truncated toward zero: the code's (a / b)|0 for exact quotients
TruncDiv(a, b) == IF a >= 0 THEN a \div b ELSE -((-a) \div b)

\* JavaScript a % b for b > 0: the sign follows the dividend
JsRem(a, b) == a - b * TruncDiv(a, b)

\* n >> 1 on a 32 bit integer: floor(n / 2)
Shr1(n) == n \div 2

\* Math.ceil(n / 2)
CeilHalf(n) == (n + 1) \div 2

\* ------------------------------------------------------------ colour table
Colors ==
    {"black", "red", "green", "yellow", "blue", "magenta", "cyan", "white",
     "gray", "bright_red", "bright_green", "bright_yellow", "bright_blue",
     "bright_magenta", "bright_cyan", "bright_white", "default"}

COLOR_MAP ==
    [c \in Colors |->
        CASE c = "black"          -> <<"ESC[30m", "ESC[40m">>
          [] c = "red"            -> <<"ESC[31m", "ESC[41m">>
          [] c = "green"          -> <<"ESC[32m", "ESC[42m">>
          [] c = "yellow"         -> <<"ESC[33m", "ESC[43m">>
          [] c = "blue"           -> <<"ESC[34m", "ESC[44m">>
          [] c = "magenta"        -> <<"ESC[35m", "ESC[45m">>
          [] c = "cyan"           -> <<"ESC[36m", "ESC[46m">>
          [] c = "white"          -> <<"ESC[37m", "ESC[47m">>
          [] c = "gray"           -> <<"ESC[90m", "ESC[100m">>
          [] c = "bright_red"     -> <<"ESC[91m", "ESC[101m">>
          [] c = "bright_green"   -> <<"ESC[92m", "ESC[102m">>
          [] c = "bright_yellow"  -> <<"ESC[93m", "ESC[103m">>
          [] c = "bright_blue"    -> <<"ESC[94m", "ESC[104m">>
          [] c = "bright_magenta" -> <<"ESC[95m", "ESC[105m">>
          [] c = "bright_cyan"    -> <<"ESC[96m", "ESC[106m">>
          [] c = "bright_white"   -> <<"ESC[97m", "ESC[107m">>
          [] c = "default"        -> <<"ESC[39m", "ESC[49m">>]

NORMAL == "ESC[0m"

DEFAULT_COLOR_SEQUENCE ==
    <<"red", "green", "yellow", "blue", "magenta", "cyan", "white", "black">>

VCHAR_MAP == <<"V1", "V2", "V3", "V4", "V5", "V6", "V7", "FULL">>

HCHAR_MAP == <<"H1", "H2", "H3", "H4", "H5", "H6", "H7", "FULL">>

\* ------------------------------------------------------------- text basics
\* the tokens ZERO_WIDTH_REGEX removes: every SGR escape the program writes
ZERO_WIDTH_REGEX ==
    {NORMAL} \cup {COLOR_MAP[c][1] : c \in Colors} \cup {COLOR_MAP[c][2] : c \in Colors}

RECURSIVE getTextWidth(_)
getTextWidth(text) ==
    IF text = <<>> THEN 0
    ELSE (IF Head(text) \in ZERO_WIDTH_REGEX THEN 0 ELSE 1) + getTextWidth(Tail(text))

\* the characters of the shared whitespace class [ \t\r\n\v...]
SpaceChars == {" ", "\n", "\t"}

\* String.prototype.repeat: a negative count raises a RangeError.  The steps
\* that can request one test the count first and end in pc = "raised"; the
\* token marks a request that such a test missed.
Repeat(ch, n) == IF n < 0 THEN <<"RangeError">> ELSE [i \in 1..n |-> ch]

\* the array a loop `for (y = 0; y < n; ++ y) push(v)` builds
Times(n, v) == [y \in 1..(IF n < 0 THEN 0 ELSE n) |-> v]

\* Array.prototype.join('') of an array of strings
RECURSIVE Join(_)
Join(parts) == IF parts = <<>> THEN <<>> ELSE Head(parts) \o Join(Tail(parts))

RECURSIVE NatToString(_)
\* String(n) for an integer n >= 0
NatToString(n) ==
    IF n < 10 THEN <<(<<"0", "1", "2", "3", "4", "5", "6", "7", "8", "9">>)[n + 1]>>
    ELSE NatToString(n \div 10) \o NatToString(n % 10)

String(n) == IF n < 0 THEN <<"-">> \o NatToString(-n) ELSE NatToString(n)

\* text.slice(a, b) with 0-based a <= b
Slice(text, a, b) == SubSeq(text, a + 1, b)

\* 0-based start of the first whitespace run at or after `from`, -1 if none
MatchStart(text, from) ==
    IF \E i \in from..(Len(text) - 1) : text[i + 1] \in SpaceChars
    THEN CHOOSE i \in from..(Len(text) - 1) :
            /\ text[i + 1] \in SpaceChars
            /\ \A j \in from..(i - 1) : text[j + 1] \notin SpaceChars
    ELSE -1

\* 0-based exclusive end of the whitespace run that starts at `start`
MatchEnd(text, start) ==
    CHOOSE j \in (start + 1)..Len(text) :
        /\ \A k \in start..(j - 1) : text[k + 1] \in SpaceChars
        /\ j = Len(text) \/ text[j + 1] \notin SpaceChars

\* the match record of `start`: without a match the code takes space = '',
\* spaceIndex = text.length (lines 154-162 and 251-260)
MatchAt(text, start) ==
    IF start >= 0
    THEN [spaceIndex |-> start, spaceEnd |-> MatchEnd(text, start), match |-> TRUE]
    ELSE [spaceIndex |-> Len(text), spaceEnd |-> Len(text), match |-> FALSE]

\* spacePattern.exec(text) with lastIndex = from
Exec(text, from) == MatchAt(text, MatchStart(text, from))

\* ----------------------------------------------------------- alignInternal
AlignPad(text, rem, align) ==
    IF align = "center"
    THEN Repeat(" ", rem - Shr1(rem)) \o text \o Repeat(" ", Shr1(rem))
    ELSE IF align = "left"
    THEN text \o Repeat(" ", rem)
    ELSE Repeat(" ", rem) \o text

alignInternal(text, textWidth, width, align) ==
    AlignPad(text, Max(width - textWidth, 0), align)

\* ---------------------------------------------------------------- wrapText
\* a flush that leaves maxWidth as it is
WrapFlushKeepMax(st, width, align, margin) ==
    [st EXCEPT
        !.lines = Append(@, alignInternal(Join(Append(st.line, Repeat(" ", margin))),
                                          st.lineWidth + margin, width, align)),
        !.line = <<Repeat(" ", margin)>>,
        !.lineWidth = margin,
        !.prevSpaceWidth = 0]

\* one flush of the current line (lines 275-281, 293-301 and 308-313)
WrapFlush(st, width, align, margin) ==
    [st EXCEPT
        !.lines = Append(@, alignInternal(Join(Append(st.line, Repeat(" ", margin))),
                                          st.lineWidth + margin, width, align)),
        !.maxWidth = Max(@, st.lineWidth + margin),
        !.line = <<Repeat(" ", margin)>>,
        !.lineWidth = margin,
        !.prevSpaceWidth = 0]

\* lines 271-274: drop the separator pushed last
WrapPop(st) ==
    IF st.prevSpaceWidth > 0
    THEN [st EXCEPT !.lineWidth = @ - st.prevSpaceWidth,
                    !.line = SubSeq(@, 1, Len(@) - 1)]
    ELSE st

\* lines 264-285: place the word on the current line or on a new one
WrapPlace(st, word, wordWidth, width, align, margin) ==
    IF st.lineWidth + wordWidth <= width - margin \/ st.lineWidth <= margin
    THEN [st EXCEPT !.line = Append(@, word), !.lineWidth = @ + wordWidth]
    ELSE [WrapFlush(WrapPop(st), width, align, margin) EXCEPT
            !.line = Append(@, word),
            !.lineWidth = margin + wordWidth,
            !.prevSpaceWidth = st.prevSpaceWidth]

\* lines 287-304: keep the separator, or flush at a newline or a full line
WrapSeparator(st, space, spaceWidth, spaceEnd, width, align, margin) ==
    IF st.lineWidth + spaceWidth < width - margin /\ space # <<"\n">>
    THEN [st EXCEPT !.line = Append(@, space),
                    !.lineWidth = @ + spaceWidth,
                    !.prevSpaceWidth = spaceWidth,
                    !.prevIndex = spaceEnd]
    ELSE [WrapFlush(st, width, align, margin) EXCEPT !.prevIndex = spaceEnd]

\* the body of the while loop, lines 246-304, for the match m
WrapWord(text, st, m, width, align, margin) ==
    WrapSeparator(
        WrapPlace(st, Slice(text, st.prevIndex, m.spaceIndex),
                  getTextWidth(Slice(text, st.prevIndex, m.spaceIndex)),
                  width, align, margin),
        Slice(text, m.spaceIndex, m.spaceEnd),
        IF Slice(text, m.spaceIndex, m.spaceEnd) = <<"\n">> THEN 0
        ELSE getTextWidth(Slice(text, m.spaceIndex, m.spaceEnd)),
        m.spaceEnd, width, align, margin)

RECURSIVE WrapLoop(_, _, _, _, _)
WrapLoop(text, st, width, align, margin) ==
    IF st.prevIndex < Len(text)
    THEN WrapLoop(text, WrapWord(text, st, Exec(text, st.prevIndex), width, align, margin),
                  width, align, margin)
    ELSE st

\* lines 307-316
WrapResult(st, width, align, margin) ==
    IF st.lineWidth > margin
    THEN [lines |-> WrapFlush(st, width, align, margin).lines,
          maxWidth |-> Max(st.maxWidth, st.lineWidth + margin)]
    ELSE [lines |-> st.lines, maxWidth |-> st.maxWidth]

\* lines 236-244: the locals at the entry of the loop
WrapStart(width, margin) ==
    [lines |-> <<>>, maxWidth |-> width,
     line |-> <<Repeat(" ", margin)>>, lineWidth |-> margin,
     prevIndex |-> 0, prevSpaceWidth |-> 0]

\* wrapText(text, width, align, margin, getTextWidth): [lines, maxWidth]
wrapText(text, width, align, margin) ==
    WrapResult(WrapLoop(text, WrapStart(width, margin), width, align, margin),
               width, align, margin)

\* --------------------------------------------------------- wrapColoredText
\* lines 137-139 (and 176-178, 189-191, 203-204): pad, reset, emit the line
ColoredFlush(st, width) ==
    [st EXCEPT
        !.lines = Append(@, st.buf \o Repeat(" ", Max(width - st.lineWidth, 0))
                              \o <<NORMAL>>),
        !.buf = <<>>]

\* lines 164-182: place the word; c = [width, margin, spacing, lineStart,
\* sep, textFG] holds the constants of the call
ColoredPlace(st, word, wordWidth, fg, c) ==
    IF \/ st.lineWidth + (IF st.buf = <<>> THEN c.margin ELSE 0) + wordWidth
             <= c.width - c.margin
       \/ st.buf = <<>>
    THEN [st EXCEPT
            !.buf = (IF st.buf = <<>> THEN c.lineStart \o <<fg>> ELSE @) \o word,
            !.lineWidth = @ + (IF st.buf = <<>> THEN c.margin ELSE 0) + wordWidth]
    ELSE [ColoredFlush(st, c.width) EXCEPT
            !.buf = c.lineStart \o <<fg>> \o word,
            !.lineWidth = c.margin + wordWidth]

\* lines 184-193: keep the separator or end the line
ColoredSeparator(st, space, spaceWidth, c) ==
    IF st.lineWidth + spaceWidth <= c.width - c.margin
    THEN [st EXCEPT !.buf = @ \o space, !.lineWidth = @ + spaceWidth]
    ELSE [ColoredFlush(st, c.width) EXCEPT !.lineWidth = 0]

\* lines 149-195: one word, for the match m
ColoredWord(text, st, prevIndex, m, fg, c) ==
    ColoredSeparator(
        ColoredPlace(st, Slice(text, prevIndex, m.spaceIndex),
                     getTextWidth(Slice(text, prevIndex, m.spaceIndex)), fg, c),
        Slice(text, m.spaceIndex, m.spaceEnd),
        getTextWidth(Slice(text, m.spaceIndex, m.spaceEnd)), c)

RECURSIVE ColoredWords(_, _, _, _, _)
ColoredWords(text, st, prevIndex, fg, c) ==
    IF prevIndex < Len(text)
    THEN ColoredWords(text, ColoredWord(text, st, prevIndex, Exec(text, prevIndex), fg, c),
                      Exec(text, prevIndex).spaceEnd, fg, c)
    ELSE st

\* lines 136-140
ColoredFlushIfAny(st, width) == IF st.buf = <<>> THEN st ELSE ColoredFlush(st, width)

\* the item goes whole on a line of its own when it does not fit on the
\* current one
ColoredFitWhole(text, st, itemWidth, nextLineWidth, fg, c) ==
    IF nextLineWidth <= c.width - c.margin
    THEN [st EXCEPT
            !.buf = @ \o (IF st.buf = <<>> THEN c.lineStart ELSE c.sep) \o <<fg>> \o text,
            !.lineWidth = nextLineWidth]
    ELSE [ColoredFlushIfAny(st, c.width) EXCEPT
            !.buf = c.lineStart \o <<fg>> \o text,
            !.lineWidth = c.margin + itemWidth]

\* lines 131-198
ColoredFit(text, st, itemWidth, nextLineWidth, fg, c) ==
    IF nextLineWidth <= c.width - c.margin
    THEN [st EXCEPT
            !.buf = @ \o (IF st.buf = <<>> THEN c.lineStart ELSE c.sep) \o <<fg>> \o text,
            !.lineWidth = nextLineWidth]
    ELSE IF c.margin + itemWidth <= c.width - c.margin
    THEN [ColoredFlushIfAny(st, c.width) EXCEPT
            !.buf = c.lineStart \o <<fg>> \o text,
            !.lineWidth = c.margin + itemWidth]
    ELSE ColoredWords(text, [ColoredFlushIfAny(st, c.width) EXCEPT !.lineWidth = 0],
                      0, fg, c)

\* lines 118-199: one item; item = [text, color], color "none" when absent
ColoredItem(item, st, itemWidth, c) ==
    IF item.text = <<>> THEN st
    ELSE ColoredFit(item.text, st, itemWidth,
                    st.lineWidth + (IF st.buf = <<>> THEN c.margin ELSE c.spacing)
                        + itemWidth,
                    IF item.color # "none" THEN COLOR_MAP[item.color][1] ELSE c.textFG,
                    c)

RECURSIVE ColoredItems(_, _, _)
ColoredItems(items, st, c) ==
    IF items = <<>> THEN st
    ELSE ColoredItems(Tail(items),
                      ColoredItem(Head(items), st, getTextWidth(Head(items).text), c), c)

\* lines 202-207
ColoredResult(st, width) == IF st.buf # <<>> THEN ColoredFlush(st, width).lines ELSE st.lines

\* lines 99-116: the constants of one call
ColoredContext(width, textFGEsc, bgEsc, margin, spacing) ==
    [width |-> width, margin |-> margin, spacing |-> spacing, textFG |-> textFGEsc,
     lineStart |-> <<bgEsc, textFGEsc>> \o Repeat(" ", margin),
     sep |-> <<textFGEsc>> \o Repeat(" ", spacing)]

\* wrapColoredText(items, {width, textColor, backgroundColor, margin, spacing})
wrapColoredTextWith(items, width, txtColor, bgColor, margin, spacing) ==
    ColoredResult(
        ColoredItems(items, [lineWidth |-> 0, buf |-> <<>>, lines |-> <<>>],
                     ColoredContext(width, COLOR_MAP[txtColor][1], COLOR_MAP[bgColor][2],
                                    margin, spacing)),
        width)

\* the call the chart makes: margin and spacing left at their defaults 1, 2
wrapColoredText(items, width, txtColor, bgColor) ==
    wrapColoredTextWith(items, width, txtColor, bgColor, 1, 2)

\* ================================================================== state
VARIABLES
    pc,             \* position inside unicodeBarChart, "done" or "raised" at the end
    heap,           \* the series objects by reference: heap[r] is the object r
    data,           \* the argument `data`: references to the caller's objects
    options,        \* the argument `options`
    datas,          \* references to the coloured series (lines 327, 376)
    index,          \* loop counter of the normalisation loop (line 342)
    xSize, yMin, yMax,
    footer, header, lines,
    yStart, yEnd,
    chartWidth, chartHeight, barWidth, spaceWidth,
    maxYLabelWidth, yLabels,
    prefix, suffix, prefixWidth,
    call,           \* the arguments of a direct call of wrapText or wrapColoredText
    frame           \* the locals of that call while it runs, then what it returned

vars ==
    <<pc, heap, data, options, datas, index, xSize, yMin, yMax, footer, header,
      lines, yStart, yEnd, chartWidth, chartHeight, barWidth, spaceWidth,
      maxYLabelWidth, yLabels, prefix, suffix, prefixWidth, call, frame>>

\* stand-in for Infinity: larger than every value and every scaled value
Infinity == 1000000

\* ---------------------------------------------------------------- options
\* line 329
backgroundColor ==
    IF options.backgroundColor = "none" THEN "black" ELSE options.backgroundColor

\* lines 330-333
textColor ==
    IF options.textColor # "none" THEN options.textColor
    ELSE IF backgroundColor = "white" THEN "black"
    ELSE IF backgroundColor = "default" THEN "default"
    ELSE "white"

width == options.width
height == options.height
textFG == COLOR_MAP[textColor][1]
bg == COLOR_MAP[backgroundColor][2]
bgInv == COLOR_MAP[backgroundColor][1]

\* line 390 (also 529, 771): the separator line above a footer block
BlankFooterLine == <<bg, textFG>> \o Repeat(" ", width) \o <<NORMAL>>

\* xLabel(x), lines 418, 482, 710: String, or the formatter x => `ab ${x}`
xLabel(x) ==
    IF options.xLabel = "String" THEN String(x) ELSE <<"a", "b", " ">> \o String(x)

\* yLabel(y), lines 419, 459, 855: String
yLabel(y) == String(y)

\* --------------------------------------------------- series normalisation
\* Array.prototype.findIndex / indexOf, 0-based, -1 when absent
IndexOf(seq, x) ==
    IF \E i \in 1..Len(seq) : seq[i] = x
    THEN (CHOOSE i \in 1..Len(seq) : seq[i] = x /\ \A j \in 1..(i - 1) : seq[j] # x) - 1
    ELSE -1

\* Array.prototype.splice(start, 1): a negative start counts from the end
Splice1(seq, start) ==
    LET from == IF start < 0 THEN Max(Len(seq) + start, 0) ELSE Min(start, Len(seq))
    IN  SubSeq(seq, 1, from) \o SubSeq(seq, from + 2, Len(seq))

\* lines 335-337
defaultColors ==
    Splice1(DEFAULT_COLOR_SEQUENCE, IndexOf(DEFAULT_COLOR_SEQUENCE, backgroundColor))

\* lines 348-350 and 355-357: the colour of an uncoloured series at `index`
NextColor(i, ds, hp) ==
    IF i = 0 THEN defaultColors[1]
    ELSE defaultColors[((IndexOf(defaultColors, hp[ds[i]].color) + 1)
                            % Len(defaultColors)) + 1]

\* newItem when the colour is stored in the caller's record
NewItemInPlace(i, ds, hp) ==
    IF hp[data[i + 1]].kind = "array"
    THEN [heap |-> Append(hp, [kind |-> "record", label |-> <<>>,
                               color |-> NextColor(i, ds, hp),
                               data |-> hp[data[i + 1]].data]),
          ref |-> Len(hp) + 1]
    ELSE IF hp[data[i + 1]].color # "none"
    THEN [heap |-> hp, ref |-> data[i + 1]]
    ELSE [heap |-> [hp EXCEPT ![data[i + 1]].color = NextColor(i, ds, hp)],
          ref |-> data[i + 1]]

\* lines 343-359: newItem for data[index]; the result is [heap, ref]
NewItem(i, ds, hp) ==
    LET item == hp[data[i + 1]]
    IN  IF item.kind = "array"
        THEN [heap |-> Append(hp, [kind |-> "record", label |-> <<>>,
                                   color |-> NextColor(i, ds, hp), data |-> item.data]),
              ref |-> Len(hp) + 1]
        ELSE IF item.color # "none"
        THEN [heap |-> hp, ref |-> data[i + 1]]
        ELSE [heap |-> Append(hp, [item EXCEPT !.color = NextColor(i, ds, hp)]),
              ref |-> Len(hp) + 1]

RECURSIVE SeqMax(_, _)
SeqMax(seq, start) ==
    IF seq = <<>> THEN start ELSE SeqMax(Tail(seq), Max(start, Head(seq)))

RECURSIVE SeqMin(_, _)
SeqMin(seq, start) ==
    IF seq = <<>> THEN start ELSE SeqMin(Tail(seq), Min(start, Head(seq)))

\* lines 361-376 for the new item r = [heap, ref]
NormalizeTo(r) ==
    /\ heap' = r.heap
    /\ datas' = Append(datas, r.ref)
    /\ xSize' = Max(xSize, Len(r.heap[r.ref].data))
    /\ yMax' = SeqMax(r.heap[r.ref].data, yMax)
    /\ yMin' = SeqMin(r.heap[r.ref].data, yMin)

\* lines 342-377: one iteration of the loop over `data`
Normalize ==
    /\ pc = "normalize"
    /\ UNCHANGED <<call, frame>>
    /\ index < Len(data)
    /\ NormalizeTo(NewItem(index, datas, heap))
    /\ index' = index + 1
    /\ UNCHANGED <<pc, data, options, footer, header, lines, yStart, yEnd,
                   chartWidth, chartHeight, barWidth, spaceWidth, maxYLabelWidth,
                   yLabels, prefix, suffix, prefixWidth>>

\* lines 388-399: the separator line and the legend, of the items
\* [item.label, item.color]; ' '.repeat(width) raises a RangeError when width < 0
Footer ==
    /\ pc = "normalize"
    /\ UNCHANGED <<call, frame>>
    /\ index = Len(data)
    /\ IF width < 0
       THEN /\ pc' = "raised"
            /\ UNCHANGED <<footer, chartWidth, chartHeight>>
       ELSE /\ pc' = "check"
            /\ footer' = <<BlankFooterLine>>
                            \o wrapColoredText(
                                  [i \in 1..Len(datas) |->
                                      [text |-> heap[datas[i]].label,
                                       color |-> heap[datas[i]].color]],
                                  width, textColor, backgroundColor)
            /\ chartWidth' = width
            /\ chartHeight' = height - Len(footer')
    /\ UNCHANGED <<heap, data, options, datas, index, xSize, yMin, yMax, header,
                   lines, yStart, yEnd, barWidth, spaceWidth, maxYLabelWidth,
                   yLabels, prefix, suffix, prefixWidth>>

\* lines 404-414 and 544-554: the blank canvas, for the footer and
\* chartHeight of the moment
BlankCanvas(ftr, chHeight) ==
    LET line == Repeat(" ", width)
    IN  IF Len(ftr) < height
        THEN Times(chHeight, line) \o ftr
        ELSE Times(height, line)

\* line 403
Degenerate1 == xSize = 0 \/ chartWidth < Len(datas) * xSize \/ chartHeight <= 0

\* lines 403-416: first degenerate check
CheckDegenerate ==
    /\ pc = "check"
    /\ UNCHANGED <<call, frame>>
    /\ Degenerate1
    /\ lines' = BlankCanvas(footer, chartHeight)
    /\ pc' = "done"
    /\ UNCHANGED <<heap, data, options, datas, index, xSize, yMin, yMax, footer,
                   header, yStart, yEnd, chartWidth, chartHeight, barWidth,
                   spaceWidth, maxYLabelWidth, yLabels, prefix, suffix, prefixWidth>>

\* the domain without the clamp to 0
RenderedDomainUnclamped ==
    IF options.hasYRange THEN options.yRange ELSE <<yMin, yMax>>

\* lines 426-431: [yStart, yEnd], the yRange verbatim or the data's extent
\* widened to contain 0
RenderedDomain ==
    IF options.hasYRange THEN options.yRange
    ELSE <<IF yMin > 0 THEN 0 ELSE yMin, IF yMax < 0 THEN 0 ELSE yMax>>

\* lines 418-438: the rendered domain, then the orientation's branch
Domain ==
    /\ pc = "check"
    /\ UNCHANGED <<call, frame>>
    /\ ~Degenerate1
    /\ yStart' = RenderedDomain[1]
    /\ yEnd' = RenderedDomain[2]
    /\ pc' = options.orientation
    /\ UNCHANGED <<heap, data, options, datas, index, xSize, yMin, yMax, footer,
                   header, lines, chartWidth, chartHeight, barWidth, spaceWidth,
                   maxYLabelWidth, yLabels, prefix, suffix, prefixWidth>>

\* lines 433-434
ySize == yEnd - yStart
yZero == -yStart

\* ------------------------------------------------------------ quantisation
\* floor and ceiling of the exact quotient num / den, den # 0
FloorQ(num, den) == IF den > 0 THEN num \div den ELSE (-num) \div (-den)
CeilQ(num, den) == -FloorQ(-num, den)

\* (num / den)|0: the exact quotient truncated toward zero
TruncQ(num, den) ==
    IF FloorQ(num, den) < 0 THEN CeilQ(num, den) ELSE FloorQ(num, den)

\* lines 570-571 and 915-916: sub * (y / ySize) rounded away from the
\* baseline (floor below 0, ceil otherwise), stored in an Int32Array.  With
\* ySize = 0 the quotient is NaN or an infinity, which the array stores as 0.
Quantize(sub, y) ==
    IF ySize = 0 THEN 0
    ELSE IF FloorQ(sub * y, ySize) < 0 THEN FloorQ(sub * y, ySize)
    ELSE CeilQ(sub * y, ySize)

\* lines 561 and 833: (sub * (yZero / ySize))|0; NaN|0 and Infinity|0 are 0
IntYZero(sub) == IF ySize = 0 THEN 0 ELSE TruncQ(sub * yZero, ySize)

\* lines 565-575 and 910-920: intValues[index][x], of the value
\* item.data.length > x ? item.data[x] : 0
IntValue(sub, s, x) ==
    Quantize(sub, IF Len(heap[datas[s]].data) > x THEN heap[datas[s]].data[x + 1] ELSE 0)

\* lines 562-563 and 834-835 for extent n (chartHeight or chartWidth)
ClampedYZeroIndex(n) ==
    Min(Max(n - TruncDiv(IntYZero(n * 8), 8) - 1, 0), n - 1)

\* the clamp with 1 as its lower limit
ClampIndexFromOne(e, n) == IF e < 1 THEN 1 ELSE IF e > n THEN n ELSE e

\* lines 616-620 and 932-936
ClampIndex(e, n) == IF e < 0 THEN 0 ELSE IF e > n THEN n ELSE e

\* lines 615-620 and 931-936
YEndIndex(n, value) ==
    ClampIndex(n - TruncDiv(value, 8) - TruncDiv(IntYZero(n * 8), 8), n)

\* ------------------------------------------------- horizontal orientation
\* lines 439-440
hXLabelPosition == IF options.xLabelPosition = "none" THEN "after" ELSE options.xLabelPosition
hYLabelPosition == IF options.yLabelPosition = "none" THEN "after" ELSE options.yLabelPosition

\* lines 446-456
HYValues ==
    <<yStart, yEnd, 0>> \o (IF options.yLabelMin THEN <<yMin>> ELSE <<>>)
        \o (IF options.yLabelMax THEN <<yMax>> ELSE <<>>)

\* lines 458-465
HYLabels ==
    IF options.yLabel = "off" THEN <<>>
    ELSE [i \in 1..Len(HYValues) |->
            [y |-> HYValues[i], label |-> yLabel(HYValues[i]),
             labelWidth |-> getTextWidth(yLabel(HYValues[i]))]]

RECURSIVE MaxLabelWidth(_)
MaxLabelWidth(ls) ==
    IF ls = <<>> THEN 0 ELSE Max(Head(ls).labelWidth, MaxLabelWidth(Tail(ls)))

\* lines 470 and 697: explicit barWidth, or the automatic one
AutoBarWidth(avail) ==
    IF options.hasBarWidth THEN options.barWidth
    ELSE Max(TruncDiv(avail, 1 + (Len(datas) + 1) * xSize), 1)

\* lines 471 and 698
AutoSpaceWidth(avail, bw) ==
    Max(TruncDiv(avail - Len(datas) * bw * xSize, xSize + 1), 0)

\* lines 529-535 and 771-777: the separator line and the list `[i] label`
FootnoteBlock ==
    <<BlankFooterLine>>
        \o wrapColoredText(
              [x \in 1..xSize |->
                  [text |-> <<"[">> \o String(x) \o <<"]", " ">> \o xLabel(x - 1),
                   color |-> "none"]],
              width, textColor, backgroundColor)

RECURSIVE MaxOver(_, _, _)
\* the maximum of f[1..n] and start
MaxOver(f, n, start) == IF n = 0 THEN start ELSE MaxOver(f, n - 1, Max(start, f[n]))

\* line 467
HChartWidth(maxY) == IF options.yLabel = "off" THEN width ELSE width - (maxY + 1)

\* lines 441-473: y labels, chart width, bar width, gap
HGeometry(yls, maxY) ==
    [yLabels |-> yls, maxYLabelWidth |-> maxY, chartWidth |-> HChartWidth(maxY),
     barWidth |-> AutoBarWidth(HChartWidth(maxY)),
     hSpaceWidth |-> AutoSpaceWidth(HChartWidth(maxY), AutoBarWidth(HChartWidth(maxY)))]

\* lines 503-511: line i of the band of full labels
HLabelLine(i, wrapped, maxLabelWidth, lpadWidth) ==
    <<bg, textFG>> \o Repeat(" ", lpadWidth)
        \o Join([x \in 1..xSize |->
                    IF i <= Len(wrapped[x].lines) THEN wrapped[x].lines[i]
                    ELSE Repeat(" ", maxLabelWidth)])
        \o Repeat(" ", width - maxLabelWidth * xSize - lpadWidth) \o <<NORMAL>>

\* lines 518-522: the marker of x-position x, centred in `space` columns
HMarker(x, space) ==
    Repeat(" ", Shr1(space)) \o String(x) \o Repeat(" ", space - Shr1(space))

\* lines 514-527
HMarkerLine(maxLabelWidth, lpadWidth) ==
    <<bg, textFG>> \o Repeat(" ", lpadWidth)
        \o Join([x \in 1..xSize |->
                    HMarker(x, maxLabelWidth - getTextWidth(String(x)))])
        \o Repeat(" ", width - (lpadWidth + xSize * maxLabelWidth)) \o <<NORMAL>>

\* a ' '.repeat with a negative count among lines 500-501
HLabelsRaise(maxLabelWidth, lpadWidth) ==
    maxLabelWidth < 0 \/ width - maxLabelWidth * xSize - lpadWidth < 0

\* a ' '.repeat with a negative count among lines 522 and 526; rpad of line
\* 521 is negative only when lpad is
HMarkersRaise(maxLabelWidth, lpadWidth) ==
    \/ \E x \in 1..xSize : Shr1(maxLabelWidth - getTextWidth(String(x))) < 0
    \/ width - (lpadWidth + xSize * maxLabelWidth) < 0

\* lines 499-536: the band of labels (fits) or of markers with its footnotes
HBand(fits, maxLabelLines, wrapped, maxLabelWidth, lpadWidth) ==
    IF fits
    THEN [raises |-> HLabelsRaise(maxLabelWidth, lpadWidth),
          band |-> [i \in 1..maxLabelLines |->
                        HLabelLine(i, wrapped, maxLabelWidth, lpadWidth)],
          notes |-> <<>>]
    ELSE [raises |-> HMarkersRaise(maxLabelWidth, lpadWidth),
          band |-> <<HMarkerLine(maxLabelWidth, lpadWidth)>>,
          notes |-> FootnoteBlock]

\* lines 479-499: the fit decision
HXLabelBand(wrapped, maxLabelWidth, lpadWidth) ==
    HBand(MaxOver([x \in 1..xSize |-> wrapped[x].maxWidth], xSize, 0) <= maxLabelWidth,
          MaxOver([x \in 1..xSize |-> Len(wrapped[x].lines)], xSize, 0),
          wrapped, maxLabelWidth, lpadWidth)

\* lines 494-495 and 538: where the band and the footnotes go
HPlaceBand(g, b) ==
    IF options.xLabel = "off"
    THEN [raises |-> FALSE, g |-> g, header |-> <<>>, footer |-> footer]
    ELSE IF b.raises
    THEN [raises |-> TRUE, g |-> g, header |-> <<>>, footer |-> footer]
    ELSE IF hXLabelPosition = "before"
    THEN [raises |-> FALSE, g |-> g, header |-> b.band, footer |-> b.notes \o footer]
    ELSE [raises |-> FALSE, g |-> g, header |-> <<>>,
          footer |-> b.band \o b.notes \o footer]

\* lines 477-496: maxLabelWidth, the wrapped labels, lpadWidth
HLayoutOf(g) ==
    HPlaceBand(g,
        HXLabelBand([x \in 1..xSize |->
                        wrapText(xLabel(x - 1), g.barWidth * Len(datas) + g.hSpaceWidth,
                                 "center", 1)],
                    g.barWidth * Len(datas) + g.hSpaceWidth,
                    CeilHalf(g.hSpaceWidth)
                        + (IF hYLabelPosition = "before" THEN g.maxYLabelWidth + 1 ELSE 0)))

\* lines 441-539: label columns, bar width, gaps, x-label band, footer
HLayout == HLayoutOf(HGeometry(HYLabels, MaxLabelWidth(HYLabels)))

HorizontalLayoutTo(r) ==
    IF r.raises
    THEN /\ pc' = "raised"
         /\ UNCHANGED <<footer, header, chartWidth, chartHeight, barWidth,
                        spaceWidth, maxYLabelWidth, yLabels>>
    ELSE /\ pc' = "hcheck"
         /\ footer' = r.footer
         /\ header' = r.header
         /\ chartWidth' = r.g.chartWidth
         /\ chartHeight' = height - Len(r.footer) - Len(r.header)
         /\ barWidth' = r.g.barWidth
         /\ spaceWidth' = r.g.hSpaceWidth
         /\ maxYLabelWidth' = r.g.maxYLabelWidth
         /\ yLabels' = r.g.yLabels

HorizontalLayout ==
    /\ pc = "horizontal"
    /\ UNCHANGED <<call, frame>>
    /\ HorizontalLayoutTo(HLayout)
    /\ UNCHANGED <<heap, data, options, datas, index, xSize, yMin, yMax, lines,
                   yStart, yEnd, prefix, suffix, prefixWidth>>

\* line 543
Degenerate2 ==
    \/ chartHeight <= 0
    \/ chartWidth < Len(datas) * xSize * barWidth + (xSize + 1) * spaceWidth

\* lines 543-556: second degenerate check
HorizontalDegenerate ==
    /\ pc = "hcheck"
    /\ UNCHANGED <<call, frame>>
    /\ Degenerate2
    /\ lines' = BlankCanvas(footer, chartHeight)
    /\ pc' = "done"
    /\ UNCHANGED <<heap, data, options, datas, index, xSize, yMin, yMax, footer,
                   header, yStart, yEnd, chartWidth, chartHeight, barWidth,
                   spaceWidth, maxYLabelWidth, yLabels, prefix, suffix, prefixWidth>>

\* ------------------------------------------------ horizontal rasterisation
\* the pushes `buf[row].push(cell)` for rows a..b in order
RowPushes(a, b, cell) ==
    [k \in 1..(IF b < a THEN 0 ELSE b - a + 1) |-> [row |-> a + k - 1, cell |-> cell]]

\* lines 605-606, 613-614, 659: the cells of one bar; hs is thisHSpace
HCells(hs, color) ==
    [hs |-> hs, fg |-> COLOR_MAP[color][1], fgInv |-> COLOR_MAP[color][2],
     full |-> hs \o <<COLOR_MAP[color][1]>> \o Repeat("FULL", barWidth) \o <<textFG>>,
     space |-> hs \o Repeat(" ", barWidth)]

\* lines 639-645 from row y2 on
HPosRest(c, clamped, y2) ==
    RowPushes(y2, clamped, c.full)
        \o RowPushes(Max(y2, clamped + 1), chartHeight - 1, c.space)

\* lines 629-646 with yIndex = y1; the row at the bar's end gets the
\* glyph VCHAR_MAP[subSteps], or a space cell
HPosEnd(value, c, yEndIndex, clamped, y1) ==
    IF y1 >= chartHeight THEN <<>>
    ELSE IF y1 = yEndIndex - 1
    THEN <<[row |-> y1,
            cell |-> IF JsRem(value, 8) # 0
                     THEN c.hs \o <<c.fg>>
                            \o Repeat(VCHAR_MAP[JsRem(value, 8) + 1], barWidth)
                            \o <<textFG>>
                     ELSE c.space]>>
            \o HPosRest(c, clamped, y1 + 1)
    ELSE HPosRest(c, clamped, y1)

\* lines 624-646: value >= 0
HPos(value, c, yEndIndex, clamped) ==
    RowPushes(0, yEndIndex - 2, c.space)
        \o HPosEnd(value, c, yEndIndex, clamped, Max(yEndIndex - 1, 0))

\* lines 656-666 with yIndex = y2; the row at the bar's end gets the
\* inverted glyph VCHAR_MAP[8 + subSteps]
HNegEnd(value, c, y2) ==
    IF y2 >= chartHeight THEN <<>>
    ELSE IF JsRem(value, 8) # 0
    THEN <<[row |-> y2,
            cell |-> c.hs \o <<bgInv, c.fgInv>>
                        \o Repeat(VCHAR_MAP[8 + JsRem(value, 8) + 1], barWidth)
                        \o <<textFG, bg>>]>>
            \o RowPushes(y2 + 1, chartHeight - 1, c.space)
    ELSE RowPushes(y2, chartHeight - 1, c.space)

\* the pushes of a negative value with the bar's end taken at yEndIndex even
\* when the blank rows down to the baseline reach further
HNegEndAtYEndIndex(value, c, yEndIndex, clamped) ==
    RowPushes(0, clamped, c.space)
        \o RowPushes(clamped + 1, yEndIndex - 1, c.full)
        \o HNegEnd(value, c, yEndIndex)

\* lines 647-667: value < 0
HNeg(value, c, yEndIndex, clamped) ==
    RowPushes(0, clamped, c.space)
        \o RowPushes(clamped + 1, yEndIndex - 1, c.full)
        \o HNegEnd(value, c, Max(clamped + 1, yEndIndex))

\* lines 605-667: the pushes one bar makes, in program order
HBarPushes(value, c) ==
    IF value >= 0
    THEN HPos(value, c, YEndIndex(chartHeight, value), ClampedYZeroIndex(chartHeight))
    ELSE HNeg(value, c, YEndIndex(chartHeight, value), ClampedYZeroIndex(chartHeight))

\* lines 607-669: the pushes of all bars, x outermost, series inside
HAllPushes ==
    Join([k \in 1..(xSize * Len(datas)) |->
            HBarPushes(IntValue(chartHeight * 8, ((k - 1) % Len(datas)) + 1,
                                (k - 1) \div Len(datas)),
                       HCells(IF (k - 1) % Len(datas) = 0
                              THEN Repeat(" ", spaceWidth) ELSE <<>>,
                              heap[datas[((k - 1) % Len(datas)) + 1]].color))])

RECURSIVE RowOf(_, _)
\* what the pushes put into row `row`, concatenated in order
RowOf(pushes, row) ==
    IF pushes = <<>> THEN <<>>
    ELSE (IF Head(pushes).row = row THEN Head(pushes).cell ELSE <<>>)
            \o RowOf(Tail(pushes), row)

\* lines 580-582: the row of a y label
HYLabelIndex(y) ==
    IF y = yEnd THEN 0
    ELSE IF y = yStart THEN chartHeight - 1
    ELSE chartHeight
            - (IF ySize = 0 THEN 0 ELSE TruncQ(chartHeight * 8 * y, ySize * 8))
            - TruncDiv(IntYZero(chartHeight * 8), 8) - 1

\* the label Map.set stored last among the indices `hits`
LastLabel(hits) ==
    IF hits = {} THEN <<>>
    ELSE LET last == CHOOSE i \in hits : \A j \in hits : j <= i
         IN  yLabels[last].label
                \o Repeat(" ", maxYLabelWidth - yLabels[last].labelWidth)

\* lines 577-587: yLabelMap.get(row), <<>> when the row has no label
HYLabelMapGet(row) ==
    LastLabel({i \in 1..Len(yLabels) : HYLabelIndex(yLabels[i].y) = row})

\* lines 590-603 and 671-685: one chart line around its cells
HRow(label, cells, endSpace, labelFiller) ==
    IF hYLabelPosition = "before"
    THEN <<bg, textFG>> \o (IF label # <<>> THEN label \o <<" ">> ELSE labelFiller)
            \o cells \o endSpace \o <<NORMAL>>
    ELSE <<bg, textFG>> \o cells \o endSpace
            \o (IF label # <<>> THEN <<" ">> \o label ELSE labelFiller) \o <<NORMAL>>

\* lines 473, 578 and 589-689: one line per chart row, with endSpace and
\* labelFiller
HRows(pushes) ==
    [r \in 1..chartHeight |->
        HRow(HYLabelMapGet(r - 1), RowOf(pushes, r - 1),
             Repeat(" ", Max(chartWidth - xSize * (Len(datas) * barWidth + spaceWidth), 0)),
             Repeat(" ", 1 + maxYLabelWidth))]

HorizontalRaster ==
    /\ pc = "hcheck"
    /\ UNCHANGED <<call, frame>>
    /\ ~Degenerate2
    /\ lines' = header \o HRows(HAllPushes)
    /\ pc' = "footer"
    /\ UNCHANGED <<heap, data, options, datas, index, xSize, yMin, yMax, footer,
                   header, yStart, yEnd, chartWidth, chartHeight, barWidth,
                   spaceWidth, maxYLabelWidth, yLabels, prefix, suffix, prefixWidth>>

\* lines 1027-1029
AppendFooter ==
    /\ pc = "footer"
    /\ UNCHANGED <<call, frame>>
    /\ lines' = lines \o footer
    /\ pc' = "done"
    /\ UNCHANGED <<heap, data, options, datas, index, xSize, yMin, yMax, footer,
                   header, yStart, yEnd, chartWidth, chartHeight, barWidth,
                   spaceWidth, maxYLabelWidth, yLabels, prefix, suffix, prefixWidth>>

\* --------------------------------------------------- vertical orientation
\* lines 691-692
vXLabelPosition == IF options.xLabelPosition = "none" THEN "before" ELSE options.xLabelPosition
vYLabelPosition == IF options.yLabelPosition = "none" THEN "before" ELSE options.yLabelPosition

\* (yLabel ? 1 : 0) of lines 694 and 780
yLabelRow == IF options.yLabel = "off" THEN 0 ELSE 1

RECURSIVE MaxWordWidthFrom(_, _, _)
\* lines 223-232: the widest word of a text, scanning from `from`
MaxWordWidthFrom(text, from, best) ==
    IF MatchStart(text, from) >= 0
    THEN MaxWordWidthFrom(text, MatchEnd(text, MatchStart(text, from)),
            Max(best, getTextWidth(Slice(text, from, MatchStart(text, from)))))
    ELSE Max(best, getTextWidth(Slice(text, from, Len(text))))

getMaxWordWidth(text) == MaxWordWidthFrom(text, 0, 0)

\* lines 748-759 and 801-810: the lines of one label centred in its slot
VLabelBlock(cell, emptyLine, rem) ==
    Times(rem - Shr1(rem), emptyLine) \o cell \o Times(Shr1(rem), emptyLine)

\* lines 762-764 and 813-815
VColumnFill(body, emptyLine, chHeight) ==
    body \o Times(chHeight - Len(body), emptyLine)

\* lines 743-764 and 796-815: the label column, one entry per chart line;
\* cells[x] are the lines of the label of x-position x
VLabelColumn(cells, emptyLine, fullVLabelSpace, linesBefore, chHeight) ==
    VColumnFill(Times(linesBefore, emptyLine)
                    \o Join([x \in 1..Len(cells) |->
                                VLabelBlock(cells[x], emptyLine,
                                            fullVLabelSpace - Len(cells[x]))]),
                emptyLine, chHeight)

\* lines 694-698 and 780-783 for the footer ftr
VGeometry(ftr) ==
    [footer |-> ftr, chartHeight |-> height - Len(ftr) - yLabelRow,
     barWidth |-> AutoBarWidth(height - Len(ftr) - yLabelRow),
     vSpaceWidth |-> AutoSpaceWidth(height - Len(ftr) - yLabelRow,
                                    AutoBarWidth(height - Len(ftr) - yLabelRow))]

\* line 721
VMaxLabelWidth ==
    Min(Max(MaxOver([x \in 1..xSize |-> getMaxWordWidth(xLabel(x - 1))], xSize, 0),
            Min(16, MaxOver([x \in 1..xSize |-> getTextWidth(xLabel(x - 1))], xSize, 0))),
        Shr1(width))

\* line 722
VAlign == IF vXLabelPosition = "before" THEN "right" ELSE "left"

\* lines 738-739
VFits(g, wrapped, maxLabelWidth) ==
    /\ MaxOver([x \in 1..xSize |-> Len(wrapped[x].lines)], xSize, 0)
          <= Len(datas) * g.barWidth + Max(g.vSpaceWidth - 2, 0)
    /\ MaxOver([x \in 1..xSize |-> wrapped[x].maxWidth], xSize, 0) <= maxLabelWidth

\* lines 736, 766-769 and 817-820: the column goes before or after the bars
VWithColumn(g, column, colWidth) ==
    [g |-> g,
     prefix |-> IF vXLabelPosition = "before" THEN column ELSE <<>>,
     suffix |-> IF vXLabelPosition = "before" THEN <<>> ELSE column,
     chartWidth |-> width - colWidth,
     prefixWidth |-> IF vXLabelPosition = "before" THEN colWidth ELSE 0]

\* lines 740-769: the wrapped labels fit beside their bars
VFull(g, wrapped, maxLabelWidth) ==
    VWithColumn(g,
                VLabelColumn([x \in 1..xSize |-> wrapped[x].lines],
                             Repeat(" ", maxLabelWidth),
                             Len(datas) * g.barWidth + g.vSpaceWidth,
                             Shr1(g.vSpaceWidth), g.chartHeight),
                maxLabelWidth)

\* lines 771-820: numeric markers beside the bars, labels as footnotes
VFootnoted(g, shortWidth) ==
    VWithColumn(g,
                VLabelColumn([x \in 1..xSize |->
                                <<alignInternal(String(x), getTextWidth(String(x)),
                                                shortWidth, VAlign)>>],
                             Repeat(" ", shortWidth),
                             Len(datas) * g.barWidth + g.vSpaceWidth,
                             Shr1(g.vSpaceWidth), g.chartHeight),
                shortWidth)

\* lines 703-822
VLayoutX(g, wrapped, maxLabelWidth) ==
    IF VFits(g, wrapped, maxLabelWidth) THEN VFull(g, wrapped, maxLabelWidth)
    ELSE VFootnoted(VGeometry(footer \o FootnoteBlock),
                    IF xSize > 0 THEN getTextWidth(String(xSize)) ELSE 0)

\* lines 694-822: bar height, gaps, the x-label column or the footnote list
VLayout ==
    IF options.xLabel = "off"
    THEN [g |-> VGeometry(footer), prefix |-> <<>>, suffix |-> <<>>,
          chartWidth |-> width, prefixWidth |-> 0]
    ELSE VLayoutX(VGeometry(footer),
                  [x \in 1..xSize |-> wrapText(xLabel(x - 1), VMaxLabelWidth, VAlign, 0)],
                  VMaxLabelWidth)

\* lines 824-830: pad the column with '' up to chartHeight entries
PadColumn(col, chHeight) == col \o Times(chHeight - Len(col), <<>>)

VerticalLayoutTo(r) ==
    /\ footer' = r.g.footer
    /\ chartHeight' = r.g.chartHeight
    /\ barWidth' = r.g.barWidth
    /\ spaceWidth' = r.g.vSpaceWidth
    /\ prefix' = PadColumn(r.prefix, r.g.chartHeight)
    /\ suffix' = PadColumn(r.suffix, r.g.chartHeight)
    /\ chartWidth' = r.chartWidth
    /\ prefixWidth' = r.prefixWidth

VerticalLayout ==
    /\ pc = "vertical"
    /\ UNCHANGED <<call, frame>>
    /\ VerticalLayoutTo(VLayout)
    /\ pc' = "vylabel"
    /\ UNCHANGED <<heap, data, options, datas, index, xSize, yMin, yMax, header,
                   lines, yStart, yEnd, maxYLabelWidth, yLabels>>

\* lines 838-852
VYValues ==
    (IF options.yLabelMin THEN <<yMin>> ELSE <<>>)
        \o (IF options.yLabelMax THEN <<yMax>> ELSE <<>>) \o <<yEnd, yStart, 0>>

\* lines 861-867
VClampLeft(i, labelWidth) ==
    Max(IF i + labelWidth > width THEN width - labelWidth ELSE i, 0)

\* lines 857-867: the column at which the label of y starts
VYLabelLeft(y, labelWidth) ==
    VClampLeft(TruncDiv(Quantize(chartWidth * 8, y), 8)
                   + TruncDiv(IntYZero(chartWidth * 8), 8) + prefixWidth,
               labelWidth)

\* lines 869-878: the loop variable `labelWidth` of the for-of shadows the
\* candidate's labelWidth, so both tests use the accepted label's width
VOverlap(yIndex, accepted) ==
    \E i \in 1..Len(accepted) :
        \/ (yIndex >= accepted[i].left
              /\ accepted[i].left + accepted[i].labelWidth > yIndex)
        \/ (accepted[i].left >= yIndex
              /\ yIndex + accepted[i].labelWidth > accepted[i].left)

\* lines 880-882
VAcceptOne(accepted, label, labelWidth, yIndex) ==
    IF VOverlap(yIndex, accepted) THEN accepted
    ELSE Append(accepted, [left |-> yIndex, labelWidth |-> labelWidth, label |-> label])

RECURSIVE VAccept(_, _)
\* lines 854-883: the labels accepted, in iteration order
VAccept(ys, accepted) ==
    IF ys = <<>> THEN accepted
    ELSE VAccept(Tail(ys),
                 VAcceptOne(accepted, yLabel(Head(ys)), getTextWidth(yLabel(Head(ys))),
                            VYLabelLeft(Head(ys), getTextWidth(yLabel(Head(ys))))))

\* insert `last` into the sorted `rest` behind the entries not right of it
InsertSorted(rest, last) ==
    SubSeq(rest, 1, Cardinality({i \in 1..Len(rest) : rest[i].left <= last.left}))
        \o <<last>>
        \o SubSeq(rest, Cardinality({i \in 1..Len(rest) : rest[i].left <= last.left}) + 1,
                  Len(rest))

RECURSIVE SortByLeft(_)
\* line 885: Array.prototype.sort by left (stable)
SortByLeft(ls) ==
    IF ls = <<>> THEN <<>>
    ELSE InsertSorted(SortByLeft(SubSeq(ls, 1, Len(ls) - 1)), ls[Len(ls)])

RECURSIVE VLabelLine(_, _)
\* lines 887-895: the label row; st = [line, prevIndex]
VLabelLine(ls, st) ==
    IF ls = <<>> THEN st
    ELSE VLabelLine(Tail(ls),
            [line |-> st.line
                        \o (IF st.prevIndex < Head(ls).left
                            THEN Repeat(" ", Head(ls).left - st.prevIndex) ELSE <<>>)
                        \o Head(ls).label,
             prevIndex |-> Head(ls).left + Head(ls).labelWidth])

\* lines 897-901
VCloseLine(st) ==
    st.line \o (IF st.prevIndex < width THEN Repeat(" ", width - st.prevIndex) ELSE <<>>)
        \o <<NORMAL>>

VYLabels == SortByLeft(VAccept(VYValues, <<>>))

VYLabelLine(ls) == VCloseLine(VLabelLine(ls, [line |-> <<bg, textFG>>, prevIndex |-> 0]))

\* lines 837-908
VerticalYLabel ==
    /\ pc = "vylabel"
    /\ UNCHANGED <<call, frame>>
    /\ IF options.yLabel = "off"
       THEN UNCHANGED <<lines, footer, yLabels>>
       ELSE /\ yLabels' = VYLabels
            /\ IF vYLabelPosition = "before"
               THEN lines' = Append(lines, VYLabelLine(VYLabels)) /\ UNCHANGED footer
               ELSE footer' = <<VYLabelLine(VYLabels)>> \o footer /\ UNCHANGED lines
    /\ pc' = "vraster"
    /\ UNCHANGED <<heap, data, options, datas, index, xSize, yMin, yMax, header,
                   yStart, yEnd, chartWidth, chartHeight, barWidth, spaceWidth,
                   maxYLabelWidth, prefix, suffix, prefixWidth>>

\* --------------------------------------------------- vertical rasterisation
\* lines 973-975 and 1006-1008
VTail(y) == IF y >= 0 THEN Repeat(" ", y + 1) ELSE <<>>

\* lines 962-978 with yIndex = y2
VPosEnd(value, yEndIndex, y2) ==
    IF y2 < 0 THEN <<textFG>>
    ELSE IF y2 = yEndIndex - 1 /\ JsRem(value, 8) # 0
    THEN <<HCHAR_MAP[JsRem(value, 8) + 1], textFG>> \o VTail(y2 - 1)
    ELSE <<textFG>> \o VTail(y2)

\* lines 955-978 with yIndex = y1
VPosFull(value, fg, yEndIndex, y1) ==
    IF y1 >= yEndIndex
    THEN <<fg>> \o Repeat("FULL", y1 - yEndIndex + 1)
            \o VPosEnd(value, yEndIndex, yEndIndex - 1)
    ELSE <<fg>> \o VPosEnd(value, yEndIndex, y1)

\* lines 949-978: value >= 0, yIndex = y0
VPos(value, fg, yEndIndex, clamped, y0) ==
    IF y0 > clamped
    THEN <<textFG>> \o Repeat(" ", y0 - clamped) \o VPosFull(value, fg, yEndIndex, clamped)
    ELSE VPosFull(value, fg, yEndIndex, y0)

\* lines 999-1008 with yIndex = y2
VNegFull(clamped, y2) ==
    IF y2 > clamped
    THEN Repeat("FULL", y2 - clamped) \o <<textFG>> \o VTail(clamped)
    ELSE <<textFG>> \o VTail(y2)

\* lines 985-1011 with yIndex = y1; cm = COLOR_MAP[color]
VNegEnd(value, cm, yEndIndex, clamped, y1) ==
    IF y1 < 0 THEN <<textFG>>
    ELSE IF y1 = yEndIndex
    THEN (IF JsRem(value, 8) # 0
          THEN <<bgInv, cm[2], HCHAR_MAP[8 + JsRem(value, 8) + 1], bg, cm[1]>>
          ELSE <<" ", cm[1]>>)
            \o VNegFull(clamped, y1 - 1)
    ELSE <<cm[1]>> \o VNegFull(clamped, y1)

\* lines 979-1012: value < 0, yIndex = y0
VNeg(value, cm, yEndIndex, clamped, y0) ==
    IF y0 > yEndIndex
    THEN <<textFG>> \o Repeat(" ", y0 - yEndIndex)
            \o VNegEnd(value, cm, yEndIndex, clamped, yEndIndex)
    ELSE VNegEnd(value, cm, yEndIndex, clamped, y0)

\* lines 929-1014: lineStr of one bar; cm = COLOR_MAP[color]
VBarLine(value, cm) ==
    IF value >= 0
    THEN VPos(value, cm[1], YEndIndex(chartWidth, value),
              ClampedYZeroIndex(chartWidth), chartWidth - 1)
    ELSE VNeg(value, cm, YEndIndex(chartWidth, value),
              ClampedYZeroIndex(chartWidth), chartWidth - 1)

\* lines 945, 1017, 1023: one output line around `body`, between
\* prefix[lineIndex] ?? '' and suffix[lineIndex] ?? ''
VLine(lineIndex, body) ==
    <<bg, textFG>>
        \o (IF lineIndex < Len(prefix) THEN prefix[lineIndex + 1] ELSE <<>>)
        \o body
        \o (IF lineIndex < Len(suffix) THEN suffix[lineIndex + 1] ELSE <<>>)
        \o <<NORMAL>>

\* lines 942-947 and 1014-1018: the bodies pushed for series s at position x
VBar(x, s, emptyLine) ==
    (IF s = 1 THEN Times(spaceWidth, emptyLine) ELSE <<>>)
        \o Times(barWidth, VBarLine(IntValue(chartWidth * 8, s, x),
                                    COLOR_MAP[heap[datas[s]].color]))

\* lines 1022-1024
VFill(bars, emptyLine) == bars \o Times(chartHeight - Len(bars), emptyLine)

\* lines 922-1024: the bodies of the chart lines in order: for each
\* x-position vSpaceWidth empty lines, then barWidth lines per series, and
\* empty lines up to chartHeight
VBodies ==
    VFill(Join([k \in 1..(xSize * Len(datas)) |->
                  VBar((k - 1) \div Len(datas), ((k - 1) % Len(datas)) + 1,
                       Repeat(" ", chartWidth))]),
          Repeat(" ", chartWidth))

VLines(bodies) == [i \in 1..Len(bodies) |-> VLine(i - 1, bodies[i])]

VerticalRaster ==
    /\ pc = "vraster"
    /\ UNCHANGED <<call, frame>>
    /\ lines' = lines \o VLines(VBodies)
    /\ pc' = "footer"
    /\ UNCHANGED <<heap, data, options, datas, index, xSize, yMin, yMax, footer,
                   header, yStart, yEnd, chartWidth, chartHeight, barWidth,
                   spaceWidth, maxYLabelWidth, yLabels, prefix, suffix, prefixWidth>>

\* ================================================================= inputs
\* a caller's series: a bare number array, or a record {label?, color?, data}
ArraySeries(d) == [kind |-> "array", label |-> <<>>, color |-> "none", data |-> d]
RecordSeries(l, c, d) == [kind |-> "record", label |-> l, color |-> c, data |-> d]

\* all lists of at most n elements of S
RECURSIVE ListsUpTo(_, _)
ListsUpTo(S, n) ==
    IF n = 0 THEN {<<>>}
    ELSE LET shorter == ListsUpTo(S, n - 1)
         IN  shorter \cup {Append(l, e) : l \in {m \in shorter : Len(m) = n - 1}, e \in S}

\* the series the layout is exercised with: a bare array, a labelled record
\* with negative data, and a coloured record without data whose label is
\* one long word
LayoutSeries ==
    {ArraySeries(<<1, 2>>),
     RecordSeries(<<"a", "b">>, "none", <<-1>>),
     RecordSeries(<<"a", "b", "c", "d", "e", "f">>, "blue", <<>>)}

\* a label option with its position; "none" leaves the position to its default
LabelChoices == {<<"off", "none">>, <<"String", "before">>, <<"String", "after">>}

OptionsOf(ws, hs, os, bws, xls, yls, mms, yrs, bgs) ==
    {[width |-> w, height |-> h, orientation |-> o,
      hasBarWidth |-> bw > 0, barWidth |-> bw,
      xLabel |-> xl[1], xLabelPosition |-> xl[2],
      yLabel |-> yl[1], yLabelPosition |-> yl[2],
      yLabelMin |-> mm, yLabelMax |-> mm,
      hasYRange |-> yr # <<>>, yRange |-> yr,
      backgroundColor |-> b, textColor |-> "none"] :
        w \in ws, h \in hs, o \in os, bw \in bws, xl \in xls, yl \in yls,
        mm \in mms, yr \in yrs, b \in bgs}

\* barWidth 0 stands for an absent barWidth option
LayoutOptions ==
    OptionsOf((-1)..MaxWidth, (-1)..MaxHeight, {"horizontal", "vertical"},
              {0, ExplicitBarWidth}, LabelChoices, LabelChoices, {TRUE}, {<<>>},
              {"none"})

\* the state at the entry of unicodeBarChart(data, options)
InitWith(serieses, optionses) ==
    /\ heap \in serieses
    /\ data = [i \in 1..Len(heap) |-> i]
    /\ options \in optionses
    /\ pc = "normalize"
    /\ datas = <<>>
    /\ index = 0
    /\ xSize = 0
    /\ yMin = Infinity
    /\ yMax = -Infinity
    /\ footer = <<>>
    /\ header = <<>>
    /\ lines = <<>>
    /\ yStart = 0
    /\ yEnd = 0
    /\ chartWidth = 0
    /\ chartHeight = 0
    /\ barWidth = 0
    /\ spaceWidth = 0
    /\ maxYLabelWidth = 0
    /\ yLabels = <<>>
    /\ prefix = <<>>
    /\ suffix = <<>>
    /\ prefixWidth = 0
    /\ call = <<>>
    /\ frame = <<>>

\* the series the colour assignment and the domain are exercised with: a
\* bare array, an uncoloured record, and records with the colour before the
\* last of the 7-colour cycle, with its last colour and with a colour that
\* is one of the backgrounds
ColouredSeries ==
    {ArraySeries(<<2>>),
     RecordSeries(<<"a">>, "none", <<-1>>),
     RecordSeries(<<"b">>, "cyan", <<1>>),
     RecordSeries(<<"c">>, "white", <<1>>),
     RecordSeries(<<"d">>, "red", <<1>>)}

\* backgrounds: the default, a member of the default cycle, a non-member;
\* domains: the data's, and a yRange that does not contain 0
ColourOptions ==
    OptionsOf({MaxWidth + 1}, {MaxHeight + 1}, {"horizontal", "vertical"}, {0},
              {<<"off", "none">>}, {<<"off", "none">>}, {TRUE}, {<<>>, <<1, 3>>},
              {"none", "red", "gray"})

\* the calls the chart function is entered with: the layout inputs, the
\* coloured inputs, and the inputs the rasterisation is exercised with.  The
\* latter are the series with values from 0 up to the end of the domain, a
\* lone 3 and a lone 1 for the partial glyphs, zeros only, 0 beside a
\* negative value, and negative values only; in the domains of the data,
\* [0, 3], [0, 8], [0, 16] (in which 3 lies where 1.5 lies in [0, 8]: the
\* quantisation uses y / ySize only), one entirely above and one entirely
\* below 0; at width 10 and heights 2 and 5, which leave 1 and 4 chart rows
\* above the footer's separator line.  The labelled inputs are bare and
\* labelled series of one and two x-positions with the x-label formatter
\* x => `ab ${x}`, whose labels take one line or two in the band, before and
\* after the chart, without and with y labels, in the domain of the data and
\* in [-3, -1], where the y labels of the data lie beyond the chart's edge
Init ==
    \/ InitWith(ListsUpTo(LayoutSeries, MaxSeries), LayoutOptions)
    \/ InitWith(ListsUpTo(ColouredSeries, MaxColouredSeries), ColourOptions)
    \/ InitWith(ListsUpTo({ArraySeries(<<0, 1, 2, 3>>), ArraySeries(<<3>>),
                            ArraySeries(<<1>>), ArraySeries(<<0>>),
                            ArraySeries(<<0, -1>>), ArraySeries(<<-2, -3>>)}, MaxSeries),
                OptionsOf({10}, {2, 5}, {"horizontal", "vertical"}, {0},
                          {<<"off", "none">>}, {<<"off", "none">>}, {TRUE},
                          {<<>>, <<0, 3>>, <<0, 8>>, <<0, 16>>, <<1, 3>>, <<-3, -1>>},
                          {"none"}))
    \/ InitWith(ListsUpTo({ArraySeries(<<1>>), ArraySeries(<<0, -1>>),
                            RecordSeries(<<"a", "b">>, "none", <<1, 2>>)}, MaxSeries),
                OptionsOf({10}, {5}, {"horizontal", "vertical"}, {0},
                          {<<"ab", "before">>, <<"ab", "after">>},
                          {<<"off", "none">>, <<"String", "none">>},
                          {TRUE}, {<<>>, <<-3, -1>>}, {"none"}))

Next ==
    \/ Normalize
    \/ Footer
    \/ CheckDegenerate
    \/ Domain
    \/ HorizontalLayout
    \/ HorizontalDegenerate
    \/ HorizontalRaster
    \/ VerticalLayout
    \/ VerticalYLabel
    \/ VerticalRaster
    \/ AppendFooter

Spec == Init /\ [][Next]_vars

\* ============================================== direct calls of the helpers
\* the chart's variables, which a direct call of a text helper leaves alone
chartVars ==
    <<heap, data, options, datas, index, xSize, yMin, yMax, footer, header,
      lines, yStart, yEnd, chartWidth, chartHeight, barWidth, spaceWidth,
      maxYLabelWidth, yLabels, prefix, suffix, prefixWidth>>

\* the state at the entry of wrapText or of wrapColoredText.  The calls
\* wrapText(text, width, align, margin) take every text of at most MaxTextLen
\* characters over a letter, a blank and a newline, and "a b c"; `again`
\* marks the call that wraps the lines `first` of an earlier call.  The calls
\* wrapColoredText(items, {width, margin, spacing}) use the default colours
\* and take items with and without colour, with one and two words, 2, 3 and
\* 4 columns wide, and without text
TextInit ==
    /\ \/ /\ pc = "wrapText"
          /\ call \in [text : ListsUpTo({"a", " ", "\n"}, MaxTextLen)
                                \cup {<<"a", " ", "b", " ", "c">>},
                        width : 0..MaxWrapWidth, align : {"left", "right", "center"},
                        margin : 0..MaxMargin, again : {FALSE}, first : {<<>>}]
          /\ frame = WrapStart(call.width, call.margin)
       \/ /\ pc = "wrapColoredText"
          /\ call \in [items : ListsUpTo({[text |-> <<"a", "b">>, color |-> "blue"],
                                          [text |-> <<"a", " ", "b", "c">>, color |-> "none"],
                                          [text |-> <<"c", " ", "d">>, color |-> "green"],
                                          [text |-> <<>>, color |-> "red"]}, MaxItems),
                        width : 0..MaxWrapWidth, margin : 0..MaxMargin,
                        spacing : {0, 2}]
          /\ frame = <<>>
    /\ heap = <<>> /\ data = <<>> /\ options = <<>> /\ datas = <<>> /\ index = 0
    /\ xSize = 0 /\ yMin = 0 /\ yMax = 0 /\ footer = <<>> /\ header = <<>>
    /\ lines = <<>> /\ yStart = 0 /\ yEnd = 0 /\ chartWidth = 0 /\ chartHeight = 0
    /\ barWidth = 0 /\ spaceWidth = 0 /\ maxYLabelWidth = 0 /\ yLabels = <<>>
    /\ prefix = <<>> /\ suffix = <<>> /\ prefixWidth = 0

\* lines 245-305: one iteration of the while loop of wrapText
WrapStep ==
    /\ pc = "wrapText"
    /\ frame.prevIndex < Len(call.text)
    /\ frame' = WrapWord(call.text, frame, Exec(call.text, frame.prevIndex),
                         call.width, call.align, call.margin)
    /\ UNCHANGED <<pc, call, chartVars>>

\* lines 307-316: the loop has ended; the last line, then { lines, maxWidth }
WrapReturn ==
    /\ pc = "wrapText"
    /\ frame.prevIndex >= Len(call.text)
    /\ frame' = WrapResult(frame, call.width, call.align, call.margin)
    /\ pc' = "wrapped"
    /\ UNCHANGED <<call, chartVars>>

RECURSIVE JoinLines(_)
\* lines.join('\n')
JoinLines(ls) ==
    IF ls = <<>> THEN <<>>
    ELSE IF Len(ls) = 1 THEN ls[1]
    ELSE ls[1] \o <<"\n">> \o JoinLines(Tail(ls))

\* the caller joins the lines returned with newlines and calls wrapText
\* again with the same width, align and margin
WrapAgain ==
    /\ pc = "wrapped"
    /\ ~call.again
    /\ call' = [call EXCEPT !.text = JoinLines(frame.lines), !.again = TRUE,
                            !.first = frame.lines]
    /\ frame' = WrapStart(call.width, call.margin)
    /\ pc' = "wrapText"
    /\ UNCHANGED chartVars

\* lines 98-208: wrapColoredText with the default colours
WrapColored ==
    /\ pc = "wrapColoredText"
    /\ frame' = wrapColoredTextWith(call.items, call.width, "white", "black",
                                    call.margin, call.spacing)
    /\ pc' = "colored"
    /\ UNCHANGED <<call, chartVars>>

\* a direct call of wrapText, wrapped once more by its caller, or a direct
\* call of wrapColoredText
TextSpec == TextInit /\ [][WrapStep \/ WrapReturn \/ WrapAgain \/ WrapColored]_vars

\* ============================================================ the demo loop
\* src/example.ts, main: the callbacks the event loop runs, each to its end.
\* `frame` holds main's state: interval (line 29, "timer" while the redraw
\* timer is set), listening (onInput is a 'data' listener of stdin),
\* destroyed (stdin), and what the callbacks have done so far: frames
\* (frames rendered and written), cleared (calls of clearInterval) and
\* shutdowns (runs of shutdown).  `call` is the event handled last: an input
\* chunk as a sequence of bytes, or <<signal>>.  Events after the process
\* has ended are not excluded, so the behaviours include the program's.

\* lines 29, 99 and 116-121: the timer is set and the listeners are attached
DemoInit ==
    /\ pc = "demo"
    /\ call = <<>>
    /\ frame = [interval |-> "timer", listening |-> TRUE, destroyed |-> FALSE,
                frames |-> 0, cleared |-> 0, shutdowns |-> 0]
    /\ heap = <<>> /\ data = <<>> /\ options = <<>> /\ datas = <<>> /\ index = 0
    /\ xSize = 0 /\ yMin = 0 /\ yMax = 0 /\ footer = <<>> /\ header = <<>>
    /\ lines = <<>> /\ yStart = 0 /\ yEnd = 0 /\ chartWidth = 0 /\ chartHeight = 0
    /\ barWidth = 0 /\ spaceWidth = 0 /\ maxYLabelWidth = 0 /\ yLabels = <<>>
    /\ prefix = <<>> /\ suffix = <<>> /\ prefixWidth = 0

\* lines 34-97 and 99: the timer fires while it is set; redraw renders one
\* frame and writes it to stdout
redraw ==
    /\ pc = "demo"
    /\ frame.interval # "null"
    /\ frame.frames < MaxFrames
    /\ frame' = [frame EXCEPT !.frames = @ + 1]
    /\ UNCHANGED <<pc, call, chartVars>>

\* shutdown without its clearInterval: the timer is left set
shutdownKeepTimer ==
    frame' = [frame EXCEPT !.listening = FALSE, !.destroyed = TRUE,
                           !.shutdowns = @ + 1]

\* lines 101-108: clearInterval when interval is not null, then stdin.off
\* and stdin.destroy
shutdown ==
    frame' = [frame EXCEPT !.interval = "null",
                           !.cleared = IF frame.interval # "null" THEN @ + 1 ELSE @,
                           !.listening = FALSE,
                           !.destroyed = TRUE,
                           !.shutdowns = @ + 1]

\* lines 110-114 and 118: a chunk of input arrives while onInput listens
\* and stdin is open; the bytes are Escape, q, Ctrl-C and a
onInput ==
    /\ pc = "demo"
    /\ frame.listening /\ ~frame.destroyed
    /\ frame.shutdowns < MaxShutdowns
    /\ \E chunk \in ListsUpTo({27, 113, 3, 97}, MaxChunk) \ {<<>>} :
          /\ call' = chunk
          /\ IF \E k \in 1..Len(chunk) : chunk[k] \in {27, 113, 3}
             THEN shutdown
             ELSE UNCHANGED frame
    /\ UNCHANGED <<pc, chartVars>>

\* lines 120-121: SIGINT or SIGTERM arrives; its listener is shutdown
onSignal ==
    /\ pc = "demo"
    /\ frame.shutdowns < MaxShutdowns
    /\ \E signal \in {"SIGINT", "SIGTERM"} : call' = <<signal>>
    /\ shutdown
    /\ UNCHANGED <<pc, chartVars>>

\* the demo: timer ticks, input chunks and signals in any order
DemoSpec == DemoInit /\ [][redraw \/ onInput \/ onSignal]_vars

\* ================================================================= claims
\* the call has returned its line sequence
Returned == pc = "done"

\* C1: the number of lines returned is at most the requested height (stated
\* for height >= 0, where the bound means something)
C1_LineCountAtMostHeight ==
    Returned /\ height >= 0 => Len(lines) <= height

\* C2: every returned line, measured with the width function, is exactly
\* `width` columns wide
C2_EveryLineIsWidthWide ==
    Returned => \A i \in 1..Len(lines) : getTextWidth(lines[i]) = width

\* C3: the call never raises
C3_NeverRaises == pc # "raised"

\* a line of blanks, styled or not
IsBlankLine(l) == \A j \in 1..Len(l) : l[j] = " " \/ l[j] \in ZERO_WIDTH_REGEX

\* `height` lines: blank ones, optionally followed by the footer ftr
IsCanvas(ls, ftr) ==
    /\ Len(ls) = height
    /\ \/ \A i \in 1..Len(ls) : IsBlankLine(ls[i])
       \/ /\ Len(ftr) <= Len(ls)
          /\ SubSeq(ls, Len(ls) - Len(ftr) + 1, Len(ls)) = ftr
          /\ \A i \in 1..(Len(ls) - Len(ftr)) : IsBlankLine(ls[i])

\* C4: whenever a degenerate branch returns, for height >= 0 the result is
\* exactly `height` lines, blank ones optionally followed by the footer
C4_DegenerateCanvas ==
    [][(CheckDegenerate \/ HorizontalDegenerate) /\ height >= 0
          => IsCanvas(lines', footer)]_vars

\* C5: height = 0 returns the empty sequence, an empty series list returns
\* the empty sequence or only the footer, and neither raises
C5_EmptyOrLegendOnly ==
    (height = 0 \/ data = <<>>)
        => /\ pc # "raised"
           /\ Returned /\ height = 0 => lines = <<>>
           /\ Returned /\ data = <<>> => lines \in {<<>>, footer}

\* C6: every returned line begins with the background escape and the text
\* foreground escape and ends with the reset escape
C6_EveryLineStyled ==
    Returned =>
        \A i \in 1..Len(lines) :
            /\ Len(lines[i]) >= 3
            /\ lines[i][1] = bg
            /\ lines[i][2] = textFG
            /\ lines[i][Len(lines[i])] = NORMAL

\* all values of all series of the input
AllValues ==
    UNION {{heap[data[i]].data[j] : j \in 1..Len(heap[data[i]].data)} :
              i \in 1..Len(data)}

SetMin(S) == CHOOSE m \in S : \A v \in S : m <= v
SetMax(S) == CHOOSE m \in S : \A v \in S : m >= v

\* the positions of the call behind the domain resolution
DomainResolved ==
    pc \in {"horizontal", "vertical", "hcheck", "vylabel", "vraster", "footer"}

Uncoloured(i) == heap[data[i]].kind = "array" \/ heap[data[i]].color = "none"

NotBackground(c) == c # backgroundColor

\* the 8-colour sequence without the background colour
CycleWithoutBackground == SelectSeq(DEFAULT_COLOR_SEQUENCE, NotBackground)

SuccessorIn(cycle, c) == cycle[((IndexOf(cycle, c) + 1) % Len(cycle)) + 1]

\* C8: of two consecutive uncoloured series the second gets the successor
\* of the first's colour in the 8-colour sequence without the background
\* colour, wrapping; an uncoloured first series gets its first colour
C8_CycleSuccessor ==
    /\ Len(datas) >= 1 /\ Uncoloured(1)
          => heap[datas[1]].color = CycleWithoutBackground[1]
    /\ \A i \in 1..(Len(datas) - 1) :
          Uncoloured(i) /\ Uncoloured(i + 1)
              => heap[datas[i + 1]].color
                    = SuccessorIn(CycleWithoutBackground, heap[datas[i]].color)

\* C9: the cycle is the 8-colour sequence with only the background colour
\* removed, complete when the background is not one of the 8
C9_CycleRemovesOnlyBackground == defaultColors = CycleWithoutBackground

\* the caller's series objects
InputRefs == {data[i] : i \in 1..Len(data)}

\* C10: no step changes the series list or any input series record
C10_InputsUnchanged ==
    [][data' = data /\ \A r \in InputRefs : heap'[r] = heap[r]]_vars

\* C10 witness: the call has returned, a series whose input record still has
\* no colour is rendered from a fresh record that has one
C10_Witness ==
    /\ Returned
    /\ \E i \in 1..Len(data) :
          /\ heap[data[i]].kind = "record"
          /\ heap[data[i]].color = "none"
          /\ datas[i] \notin InputRefs
          /\ heap[datas[i]].color # "none"
          /\ heap[datas[i]].label = heap[data[i]].label

\* the greatest data length among the input series, 0 without series
MaxLength == SetMax({Len(heap[data[i]].data) : i \in 1..Len(data)} \cup {0})

\* the block glyphs
Glyphs == {VCHAR_MAP[i] : i \in 1..8} \cup {HCHAR_MAP[i] : i \in 1..8}

\* the chart body has been rasterised, in either orientation
Rasterised == pc = "footer"

Horizontal == options.orientation = "horizontal"

\* the quantised value of series s at x-position x (0-based)
BarValue(s, x) == IntValue((IF Horizontal THEN chartHeight ELSE chartWidth) * 8, s, x)

\* the tokens the rasterisation writes for that bar, without the gap before
\* it: the cells of all chart rows in order, or one line of the bar
BarTokens(s, x) ==
    IF Horizontal
    THEN LET pushes == HBarPushes(BarValue(s, x), HCells(<<>>, heap[datas[s]].color))
         IN  Join([k \in 1..Len(pushes) |-> pushes[k].cell])
    ELSE VBarLine(BarValue(s, x), COLOR_MAP[heap[datas[s]].color])

\* the bar consists of blanks: no block glyph among its tokens
ZeroExtent(s, x) == \A k \in 1..Len(BarTokens(s, x)) : BarTokens(s, x)[k] \notin Glyphs

\* the x-positions series s has no value for
MissingPositions(s) == {x \in 0..(xSize - 1) : Len(heap[datas[s]].data) <= x}

\* C11: xSize is the greatest data length, and at every x-position a shorter
\* series has no value for, its bar is the bar of the value 0: quantised
\* value 0 and zero extent, in both orientations
C11_ShortSeriesZeroPadded ==
    /\ (pc # "normalize" \/ index = Len(data)) => xSize = MaxLength
    /\ Rasterised =>
          \A s \in 1..Len(datas) : \A x \in MissingPositions(s) :
              BarValue(s, x) = 0 /\ ZeroExtent(s, x)

\* the x-positions series s has a value for
DataPositions(s) == {x \in 0..(xSize - 1) : x < Len(heap[datas[s]].data)}

\* C19: with ySize > 0 a value y >= 0 is quantised to ceil(sub * y / ySize),
\* a value y < 0 to floor(sub * y / ySize), and a data point of value 0 is
\* rendered as a bar of zero extent
C19_ZeroValueZeroExtent ==
    Rasterised /\ ySize > 0 =>
        \A s \in 1..Len(datas) : \A x \in DataPositions(s) :
            LET y == heap[datas[s]].data[x + 1]
                sub == (IF Horizontal THEN chartHeight ELSE chartWidth) * 8
            IN  /\ y >= 0 => BarValue(s, x) = CeilQ(sub * y, ySize)
                /\ y < 0 => BarValue(s, x) = FloorQ(sub * y, ySize)
                /\ y = 0 => ZeroExtent(s, x)

\* the tokens of a line that take a column
Visible(line) == SelectSeq(line, LAMBDA t : t \notin ZERO_WIDTH_REGEX)

\* horizontal orientation, one series: the first column (1-based) of the bar
\* at x-position x in a chart row without a label before it
BarColumn(x) == spaceWidth + x * (barWidth + spaceWidth) + 1

\* the bar fills every chart row: per row the series colour, barWidth full
\* blocks, and the text colour again
FullHeight(s, x) ==
    BarTokens(s, x)
        = Join(Times(chartHeight,
                     <<COLOR_MAP[heap[datas[s]].color][1]>> \o Repeat("FULL", barWidth)
                        \o <<textFG>>))

\* the scenario: one series [0, 1, 2, 3], yRange [0, 3], width 10, height 5,
\* horizontal, default colours
Scenario0123 ==
    /\ Len(data) = 1
    /\ heap[data[1]].data = <<0, 1, 2, 3>>
    /\ options.hasYRange /\ options.yRange = <<0, 3>>
    /\ width = 10 /\ height = 5
    /\ Horizontal
    /\ options.backgroundColor = "none"

\* the scenario's output: four chart rows with a blank at x-position 0 and a
\* full block at x-position 3, then one background-filled line
Scenario0123Output ==
    /\ Len(lines) = 5
    /\ \A r \in 1..4 :
          /\ Visible(lines[r])[BarColumn(0)] = " "
          /\ Visible(lines[r])[BarColumn(3)] = "FULL"
    /\ ZeroExtent(1, 0)
    /\ FullHeight(1, 3)
    /\ lines[5] = <<bg, textFG>> \o Repeat(" ", 10) \o <<NORMAL>>

\* C12 as stated: the scenario's output, and in the horizontal orientation
\* with yStart = 0 every value equal to yEnd fills the whole chart height
\* with full blocks
C12_ValueAtYEndFillsChart ==
    /\ Returned /\ Scenario0123 => Scenario0123Output
    /\ Rasterised /\ Horizontal /\ yStart = 0 =>
          \A s \in 1..Len(datas) : \A x \in DataPositions(s) :
              heap[datas[s]].data[x + 1] = yEnd => FullHeight(s, x)

\* C12 amended: the same for a domain that is not empty, yStart = 0 < yEnd
C12_ValueAtPositiveYEndFillsChart ==
    /\ Returned /\ Scenario0123 => Scenario0123Output
    /\ Rasterised /\ Horizontal /\ yStart = 0 /\ yEnd > 0 =>
          \A s \in 1..Len(datas) : \A x \in DataPositions(s) :
              heap[datas[s]].data[x + 1] = yEnd => FullHeight(s, x)

\* C12 witness: the scenario has returned its five lines
C12_Witness == Returned /\ Scenario0123 /\ Len(lines) = 5 /\ FullHeight(1, 3)

\* the scenario: the single value 1.5 in yRange [0, 8] on one chart row,
\* horizontal; in halves, as the model's numbers are integers: the value 3
\* in yRange [0, 16], the same y / ySize
ScenarioOneAndAHalf ==
    /\ Len(data) = 1
    /\ heap[data[1]].data = <<3>>
    /\ options.hasYRange /\ options.yRange = <<0, 16>>
    /\ Horizontal
    /\ chartHeight = 1

\* C13: the bar cell of the scenario shows the 1/8 block, the first glyph of
\* VCHAR_MAP
C13_OneEighthGlyph ==
    Rasterised /\ ScenarioOneAndAHalf =>
        Visible(lines[1])[BarColumn(0)] = VCHAR_MAP[1]

\* the eighths of a cell a block glyph fills
EighthsOf(t) == CHOOSE k \in 1..8 : VCHAR_MAP[k] = t \/ HCHAR_MAP[k] = t

RECURSIVE SeriesEighths(_, _)
\* for each block glyph among the tokens, the eighths of its cell shown in
\* the series colour: the glyph's eighths, or the rest of the cell where the
\* glyph is drawn inverted (background colour on the series colour)
SeriesEighths(tokens, inverted) ==
    IF tokens = <<>> THEN <<>>
    ELSE IF Head(tokens) \in Glyphs
    THEN <<IF inverted THEN 8 - EighthsOf(Head(tokens)) ELSE EighthsOf(Head(tokens))>>
            \o SeriesEighths(Tail(tokens), inverted)
    ELSE SeriesEighths(Tail(tokens),
                       IF Head(tokens) \in {COLOR_MAP[c][2] : c \in Colors}
                       THEN Head(tokens) # bg ELSE inverted)

\* how many entries of seq equal v
Count(seq, v) == Cardinality({i \in 1..Len(seq) : seq[i] = v})

\* glyphs per cell of a bar: barWidth in a chart row, 1 in a bar's line
CellWidth == IF Horizontal THEN barWidth ELSE 1

Abs(n) == IF n < 0 THEN -n ELSE n

\* the bar of quantised value e consists of floor(|e| / 8) full cells and,
\* for k = |e| mod 8 # 0, one cell showing k eighths in the series colour
CoversEighths(s, x, e) ==
    LET shown == SeriesEighths(BarTokens(s, x), FALSE)
    IN  /\ Count(shown, 8) = (Abs(e) \div 8) * CellWidth
        /\ Abs(e) % 8 # 0 => Count(shown, Abs(e) % 8) = CellWidth
        /\ Len(shown) = ((Abs(e) \div 8) + (IF Abs(e) % 8 # 0 THEN 1 ELSE 0)) * CellWidth

\* C18: in both orientations, with the baseline inside the chart, the bar of
\* a value inside the domain covers exactly |e| eighths for its quantised
\* value e: floor(|e| / 8) full-block cells and one boundary cell showing
\* |e| mod 8 eighths in the series colour
C18_BarCoversItsEighths ==
    Rasterised /\ ySize > 0 /\ yStart <= 0 /\ 0 <= yEnd =>
        \A s \in 1..Len(datas) : \A x \in DataPositions(s) :
            (yStart <= heap[datas[s]].data[x + 1] /\ heap[datas[s]].data[x + 1] <= yEnd)
                => CoversEighths(s, x, BarValue(s, x))

\* ---- wrapText, over TextSpec
\* the word the coming iteration of the loop places
NextWord == Slice(call.text, frame.prevIndex, Exec(call.text, frame.prevIndex).spaceIndex)

\* the measured width of the current line, its left margin included
CurrentWidth == getTextWidth(Join(frame.line))

\* the iteration taken has put its word on a new line: it has flushed a line
\* before the word; the flush behind the word, if any, leaves only the
\* margin on the current line
BrokeBeforeWord ==
    Len(frame'.lines) - Len(frame.lines) - (IF Len(frame'.line) = 1 THEN 1 ELSE 0) = 1

\* the line is `width` columns wide, or wider and a single word between the
\* margins
PaddedOrOversized(l) ==
    \/ getTextWidth(l) = call.width
    \/ /\ getTextWidth(l) > call.width
       /\ Len(l) > 2 * call.margin
       /\ \A j \in 1..Len(l) :
             (l[j] \in SpaceChars) <=> (j <= call.margin \/ j > Len(l) - call.margin)

\* C14: an iteration appends its word to the current line exactly when the
\* line is empty or currentWidth + wordWidth <= width - margin, and breaks
\* before the word otherwise; every line returned is `width` columns wide
\* unless it is a single oversized word; wrapText("a b c", 3, 'left')
\* returns "a b" and "c  "
C14_GreedyWrap ==
    [][/\ WrapStep =>
            (~BrokeBeforeWord <=>
                \/ CurrentWidth <= call.margin
                \/ CurrentWidth + getTextWidth(NextWord) <= call.width - call.margin)
       /\ WrapReturn =>
            /\ \A i \in 1..Len(frame'.lines) : PaddedOrOversized(frame'.lines[i])
            /\ (call.text = <<"a", " ", "b", " ", "c">> /\ call.width = 3
                    /\ call.align = "left" /\ call.margin = 0)
                  => frame'.lines = <<(<<"a", " ", "b">>), (<<"c", " ", " ">>)>>]_vars

\* the content width of a returned line, margins included: the line without
\* the blanks around it, between its two margins
ContentWidth(l) ==
    LET inked == {j \in 1..Len(l) : l[j] # " "}
    IN  (IF inked = {} THEN 0 ELSE SetMax(inked) - SetMin(inked) + 1) + 2 * call.margin

\* the greatest content width among the returned lines, 0 without lines
MaxContentWidth ==
    SetMax({ContentWidth(frame.lines[i]) : i \in 1..Len(frame.lines)} \cup {0})

\* some word of the text does not fit between the margins of a line of its own
WordOverflows ==
    call.text # <<>> /\ getMaxWordWidth(call.text) + 2 * call.margin > call.width

C16_RewrapIdempotent ==
    pc = "wrapped" /\ call.again => frame.lines = call.first

\* ---- wrapColoredText, over TextSpec
\* C17: every line wrapColoredText returns starts with the background and
\* the text-foreground escape, measures exactly `width` columns and ends
\* with the style reset
C17_ColoredLinesFullWidth ==
    pc = "colored" =>
        \A i \in 1..Len(frame) :
            /\ Len(frame[i]) >= 3
            /\ frame[i][1] = COLOR_MAP["black"][2]
            /\ frame[i][2] = COLOR_MAP["white"][1]
            /\ frame[i][Len(frame[i])] = NORMAL
            /\ getTextWidth(frame[i]) = call.width

\* the line holds a word: some character of it is not whitespace
HoldsWord(l) == \E j \in 1..Len(l) : l[j] \notin SpaceChars

\* the line holds one word and nothing else between its margins
WordAlone(l) ==
    /\ Len(l) > 2 * call.margin
    /\ \A j \in 1..Len(l) :
          (l[j] \in SpaceChars) <=> (j <= call.margin \/ j > Len(l) - call.margin)

\* C20: every line wrapText returns holds a word, whatever whitespace the
\* text starts with and however wide the following word is, and a line wider
\* than `width` holds its oversized word alone
C20_NoWordlessLine ==
    pc = "wrapped" =>
        \A i \in 1..Len(frame.lines) :
            /\ HoldsWord(frame.lines[i])
            /\ getTextWidth(frame.lines[i]) > call.width => WordAlone(frame.lines[i])

\* the positions of the text at which a newline-free stretch has its first
\* character that is not whitespace: one for every stretch that holds a word
StretchStarts(text) ==
    {i \in 1..Len(text) :
        /\ text[i] \notin SpaceChars
        /\ \A j \in 1..(i - 1) :
              (\A k \in j..(i - 1) : text[k] # "\n") => text[j] \in SpaceChars}

\* C21: every newline of the text breaks the line: no line returned holds a
\* newline character, and the words before and after a newline are on
\* different lines, so that there are at least as many lines with a word as
\* newline-free stretches with a word
C21_NewlineBreaksLine ==
    pc = "wrapped" /\ ~call.again =>
        /\ \A i \in 1..Len(frame.lines) :
              \A j \in 1..Len(frame.lines[i]) : frame.lines[i][j] # "\n"
        /\ Cardinality({i \in 1..Len(frame.lines) : HoldsWord(frame.lines[i])})
              >= Cardinality(StretchStarts(call.text))

\* the foreground escape wrapColoredText gives the item in the direct calls
ItemFG(item) ==
    IF item.color # "none" THEN COLOR_MAP[item.color][1] ELSE COLOR_MAP["white"][1]

\* the whole text of the item follows its foreground escape in the line
Whole(item, l) ==
    \E k \in 1..Len(l) :
        /\ l[k] = ItemFG(item)
        /\ k + Len(item.text) <= Len(l)
        /\ SubSeq(l, k + 1, k + Len(item.text)) = item.text

\* the item has more than one word
SeveralWords(item) == \E j \in 1..Len(item.text) : item.text[j] \in SpaceChars

\* the characters of the text that are neither whitespace nor escapes
Ink(text) == SelectSeq(text, LAMBDA t : t \notin SpaceChars \cup ZERO_WIDTH_REGEX)

\* items in input order, none lost: the ink of the lines is the ink of the
\* items, and an item without text leaves no escape of its colour
ItemsInOrder ==
    /\ Ink(Join(frame)) = Ink(Join([n \in 1..Len(call.items) |-> call.items[n].text]))
    /\ \A n \in 1..Len(call.items) :
          call.items[n].text = <<>> =>
              \A i \in 1..Len(frame) : \A j \in 1..Len(frame[i]) :
                  frame[i][j] # ItemFG(call.items[n])

\* every item of at most `room` columns is whole on one line, every wider
\* item of several words is divided between lines
WrappedBeyond(room) ==
    \A n \in 1..Len(call.items) :
        call.items[n].text # <<>> =>
            /\ getTextWidth(call.items[n].text) <= room
                  => \E i \in 1..Len(frame) : Whole(call.items[n], frame[i])
            /\ getTextWidth(call.items[n].text) > room /\ SeveralWords(call.items[n])
                  => \A i \in 1..Len(frame) : ~Whole(call.items[n], frame[i])

\* C22 as stated: an item is word-wrapped exactly when its width exceeds
\* width - margin, every other item that has text is whole on one line,
\* the items appear in input order and an item without text leaves nothing
C22_WrappedBeyondWidthLessMargin ==
    pc = "colored" => WrappedBeyond(call.width - call.margin) /\ ItemsInOrder

\* C22 amended: the same with the room that the two margins leave: an item
\* is word-wrapped exactly when its width exceeds width - 2 * margin
C22_WrappedBeyondBothMargins ==
    pc = "colored" => WrappedBeyond(call.width - 2 * call.margin) /\ ItemsInOrder

\* C22 witness: a call has returned with an item of two words divided, an
\* item whole on its line and an item without text
C22_Witness ==
    /\ pc = "colored"
    /\ call.margin = 1
    /\ \E n \in 1..Len(call.items) :
          /\ SeveralWords(call.items[n])
          /\ getTextWidth(call.items[n].text) > call.width - 2 * call.margin
          /\ getTextWidth(call.items[n].text) <= call.width - call.margin
          /\ \A i \in 1..Len(frame) : ~Whole(call.items[n], frame[i])

\* ---- the x-label band of the horizontal chart
\* the labels as line 483 wraps them for bar groups of `room` columns
WrappedLabels(room) ==
    [x \in 1..xSize |-> wrapText(xLabel(x - 1), room, "center", 1)]

\* every wrapped label is at most as wide as a bar group
LabelsFit(room) == \A x \in 1..xSize : WrappedLabels(room)[x].maxWidth <= room

\* the band holds the wrapped labels in full: as many lines as the longest
\* label has, line i with the ink of line i of every label in order, and
\* every label wrapped without loss
FullLabelBand(band, room) ==
    /\ Len(band) = SetMax({Len(WrappedLabels(room)[x].lines) : x \in 1..xSize} \cup {0})
    /\ \A i \in 1..Len(band) :
          Ink(band[i]) =
              Join([x \in 1..xSize |->
                      IF i <= Len(WrappedLabels(room)[x].lines)
                      THEN Ink(WrappedLabels(room)[x].lines[i]) ELSE <<>>])
    /\ \A x \in 1..xSize :
          Ink(Join(WrappedLabels(room)[x].lines)) = Ink(xLabel(x - 1))

\* the band is one line carrying the markers 1..xSize
MarkerBand(band) ==
    Len(band) = 1 /\ Ink(band[1]) = Join([x \in 1..xSize |-> String(x)])

\* the lines are a separator and a list with one entry `[i] label` per
\* x-position, in order and in full
FootnoteList(notes) ==
    /\ Len(notes) >= 1
    /\ notes[1] = BlankFooterLine
    /\ Ink(Join(Tail(notes))) =
          Join([x \in 1..xSize |-> <<"[">> \o String(x) \o <<"]">> \o Ink(xLabel(x - 1))])

\* the layout step has put the x labels where they belong: the full labels
\* when they fit, one marker line and the footnote list otherwise, in the
\* header for 'before' and at the head of the footer for 'after', the
\* earlier footer lines kept behind them
XLabelsLaidOut(room, gained) ==
    /\ gained \o footer = footer'
    /\ IF LabelsFit(room)
       THEN IF hXLabelPosition = "before"
            THEN FullLabelBand(header', room) /\ gained = <<>>
            ELSE header' = <<>> /\ FullLabelBand(gained, room)
       ELSE IF hXLabelPosition = "before"
            THEN MarkerBand(header') /\ FootnoteList(gained)
            ELSE /\ header' = <<>>
                 /\ Len(gained) >= 1
                 /\ MarkerBand(SubSeq(gained, 1, 1))
                 /\ FootnoteList(Tail(gained))

\* C23: with an x-label function the horizontal layout renders the full
\* wrapped labels exactly when every label's maxWidth is at most
\* barWidth * seriesCount + spacing, in the header for 'before' and in the
\* footer for 'after'; otherwise it renders one marker line 1..xSize there
\* and adds the footnote list `[i] label` to the footer; no label text is
\* lost on either path
C23_LabelsOrFootnotes ==
    [][HorizontalLayout /\ options.xLabel # "off" =>
          /\ pc' = "hcheck"
          /\ XLabelsLaidOut(barWidth' * Len(datas) + spaceWidth',
                            SubSeq(footer', 1, Len(footer') - Len(footer)))]_vars

\* ---- the y-label row of the vertical chart
\* the column spans [left, left + labelWidth) of the two labels intersect
SpansMeet(a, b) == a.left < b.left + b.labelWidth /\ b.left < a.left + a.labelWidth

\* the candidate labels in iteration order, each at its clamped column
Candidates ==
    [n \in 1..Len(VYValues) |->
        [left |-> VYLabelLeft(VYValues[n], getTextWidth(yLabel(VYValues[n]))),
         labelWidth |-> getTextWidth(yLabel(VYValues[n])),
         label |-> yLabel(VYValues[n])]]

RECURSIVE FirstClaimed(_, _)
\* the candidates kept when a candidate is dropped exactly if its span
\* intersects the span of a label kept before it
FirstClaimed(cands, kept) ==
    IF cands = <<>> THEN kept
    ELSE FirstClaimed(Tail(cands),
                      IF \E i \in 1..Len(kept) : SpansMeet(Head(cands), kept[i])
                      THEN kept ELSE Append(kept, Head(cands)))

\* the label row the step has built: the last line for 'before', the head
\* of the footer for 'after'
LabelRowBuilt ==
    IF vYLabelPosition = "before" THEN lines'[Len(lines')] ELSE footer'[1]

\* C24: the y-label row of the vertical chart never holds two labels whose
\* column spans intersect; a candidate is dropped exactly when its span
\* intersects that of a label accepted before it; the row is `width`
\* columns wide
C24_LabelSpansDisjoint ==
    [][VerticalYLabel /\ options.yLabel # "off" =>
          /\ \A i, j \in 1..Len(yLabels') :
                i # j => ~SpansMeet(yLabels'[i], yLabels'[j])
          /\ yLabels' = SortByLeft(FirstClaimed(Candidates, <<>>))
          /\ getTextWidth(LabelRowBuilt) = width]_vars

\* ---- bar width and gaps
\* the automatic bar width and the gap for `avail` columns or rows, with the
\* floor of the quotient
FloorBarWidth(avail) == Max(FloorQ(avail, 1 + (Len(datas) + 1) * xSize), 1)
FloorSpacing(avail, bw) == Max(FloorQ(avail - Len(datas) * bw * xSize, xSize + 1), 0)

\* the bars and gaps of the chart fit in `avail` columns or rows
BarsFit(avail) == xSize * (Len(datas) * barWidth + spaceWidth) + spaceWidth <= avail

\* C25: without an explicit barWidth the layout sets barWidth =
\* max(floor(available / (1 + (seriesCount + 1) * xSize)), 1) and spacing =
\* max(floor((available - seriesCount * barWidth * xSize) / (xSize + 1)), 0),
\* so that barWidth >= 1 and spacing >= 0, and the bars and gaps of every
\* chart that is rasterised fit in the available space: the chart width in
\* horizontal and the chart height in vertical orientation
C25_BarsAndGapsFit ==
    [][~options.hasBarWidth =>
          /\ HorizontalLayout /\ pc' = "hcheck" =>
                /\ barWidth' = FloorBarWidth(chartWidth')
                /\ spaceWidth' = FloorSpacing(chartWidth', barWidth')
                /\ barWidth' >= 1 /\ spaceWidth' >= 0
          /\ VerticalLayout =>
                /\ barWidth' = FloorBarWidth(chartHeight')
                /\ spaceWidth' = FloorSpacing(chartHeight', barWidth')
                /\ barWidth' >= 1 /\ spaceWidth' >= 0
          /\ HorizontalRaster => BarsFit(chartWidth)
          /\ VerticalRaster => BarsFit(chartHeight)]_vars

\* ---- colours after an explicit colour
\* the colour is one of the cycle
InCycle(cycle, c) == \E k \in 1..Len(cycle) : cycle[k] = c

\* C26: an uncoloured series behind a series with an explicit colour gets
\* the successor of that colour in the cycle (the 8-colour sequence without
\* the background colour) when the colour is in the cycle, and the first
\* colour of the cycle when it is not; an explicit colour is kept as given;
\* no colour that was assigned is the background colour
C26_SuccessorOfExplicitColour ==
    /\ \A i \in 1..(Len(datas) - 1) :
          ~Uncoloured(i) /\ Uncoloured(i + 1)
              => heap[datas[i + 1]].color
                    = (IF InCycle(CycleWithoutBackground, heap[data[i]].color)
                       THEN SuccessorIn(CycleWithoutBackground, heap[data[i]].color)
                       ELSE CycleWithoutBackground[1])
    /\ \A i \in 1..Len(datas) :
          /\ ~Uncoloured(i) => heap[datas[i]].color = heap[data[i]].color
          /\ Uncoloured(i) => heap[datas[i]].color # backgroundColor

\* ---- negative bars below a baseline at the top edge
\* the cell of the bar of series s at x-position x in chart row `row`
\* (0-based, from the top), without the gap before it
BarCell(s, x, row) ==
    RowOf(HBarPushes(BarValue(s, x), HCells(<<>>, heap[datas[s]].color)), row)

\* the cell of full blocks in the colour of series s
FullCell(s) ==
    <<COLOR_MAP[heap[datas[s]].color][1]>> \o Repeat("FULL", barWidth) \o <<textFG>>

\* C27: in a horizontal chart of negative values only, without yRange, the
\* bar of a value equal to yStart is a full block in every chart row, and
\* the bar of quantised value e is a full block in each of the first
\* floor(|e| / 8) rows from the top
C27_NegativeBarsFromTop ==
    (/\ Rasterised /\ Horizontal /\ ~options.hasYRange
     /\ AllValues # {} /\ \A v \in AllValues : v < 0) =>
        \A s \in 1..Len(datas) : \A x \in DataPositions(s) :
            /\ heap[datas[s]].data[x + 1] = yStart => FullHeight(s, x)
            /\ \A row \in 0..((Abs(BarValue(s, x)) \div 8) - 1) :
                  BarCell(s, x, row) = FullCell(s)

\* ---- the order of the output
\* the series legend: the separator line and the legend lines of lines
\* 390-396
LegendBlock ==
    <<BlankFooterLine>>
        \o wrapColoredText([i \in 1..Len(datas) |->
                               [text |-> heap[datas[i]].label,
                                color |-> heap[datas[i]].color]],
                           width, textColor, backgroundColor)

\* `part` is the end of `whole`
EndsWith(whole, part) ==
    /\ Len(part) <= Len(whole)
    /\ SubSeq(whole, Len(whole) - Len(part) + 1, Len(whole)) = part

\* C28: the lines returned for a chart that was rasterised are the header,
\* then the chart rows, then the footer, and the footer ends with the series
\* legend, behind any x-label band and any footnote list, in both
\* orientations
C28_LegendLast ==
    [][AppendFooter =>
          /\ Len(lines') >= Len(header) + Len(footer)
          /\ SubSeq(lines', 1, Len(header)) = header
          /\ EndsWith(lines', footer)
          /\ EndsWith(footer, LegendBlock)]_vars

\* ---- every chart row written once per bar
\* the pushes of the bar of series s at x-position x (0-based), in program
\* order
BarPushes(s, x) ==
    HBarPushes(BarValue(s, x),
               HCells(IF s = 1 THEN Repeat(" ", spaceWidth) ELSE <<>>,
                      heap[datas[s]].color))

\* the pushes go to the rows 0, 1, ..., chartHeight - 1, one push each, and
\* every pushed cell is the gap and barWidth columns wide
OncePerRow(pushes, gap) ==
    /\ Len(pushes) = chartHeight
    /\ \A k \in 1..Len(pushes) :
          /\ pushes[k].row = k - 1
          /\ getTextWidth(pushes[k].cell) = gap + barWidth

\* C29: the horizontal rasterisation pushes, for every bar (x-position and
\* series), exactly one cell group to every chart row, to no row outside
\* [0, chartHeight), skipping none and writing none twice, whatever the
\* value and the domain; the chart rows therefore all have one width
C29_EveryRowOncePerBar ==
    [][HorizontalRaster =>
          /\ \A x \in 0..(xSize - 1) : \A s \in 1..Len(datas) :
                OncePerRow(BarPushes(s, x), IF s = 1 THEN spaceWidth ELSE 0)
          /\ Len(lines') = Len(header) + chartHeight
          /\ \A r1, r2 \in (Len(header) + 1)..Len(lines') :
                getTextWidth(lines'[r1]) = getTextWidth(lines'[r2])]_vars

\* C29 witness: a rasterised horizontal chart of several rows in a domain
\* that does not contain 0, with a value outside the domain
C29_Witness ==
    /\ Rasterised /\ Horizontal /\ chartHeight >= 2
    /\ ~(yStart <= 0 /\ 0 <= yEnd)
    /\ \E v \in AllValues : v > yEnd \/ v < yStart

\* ---- the demo stops drawing at shutdown
\* C30: in the demo loop, in every state after a run of shutdown (by an
\* input chunk holding Escape, q or Ctrl-C, or by SIGINT or SIGTERM) the
\* redraw timer is cleared, clearInterval has been called once and not more,
\* and no step from such a state renders or writes a frame, however often
\* and by whichever events shutdown is run again
C30_NoFrameAfterShutdown ==
    [][/\ frame'.shutdowns > 0 =>
              /\ frame'.interval = "null"
              /\ frame'.cleared = 1
       /\ frame'.cleared <= 1
       /\ frame.shutdowns > 0 => frame'.frames = frame.frames]_vars

\* C30 witness: frames were written, then shutdown has run more than once,
\* last by a signal
C30_Witness ==
    /\ pc = "demo"
    /\ frame.frames >= 1
    /\ frame.shutdowns >= 2
    /\ call \in {<<"SIGINT">>, <<"SIGTERM">>}
====
